---------------------------- MODULE Spec2Model ----------------------------
(***************************************************************************)
(* MuLoom control server (src/server/index.js): the shared Session State,  *)
(* the connection registry and the broadcast hub, as a state machine.      *)
(*                                                                         *)
(* JavaScript values.  A scalar is a record [k, n, s]: k is the JS type,   *)
(* n the numeric value in TENTHS (0.5 is 5, 1 is 10, 100 is 1000), s the   *)
(* text of a string (or "NaN" for the number NaN).  An array is a record   *)
(* [k |-> "array", items |-> <<...>>].  A JSON object is a TLA+ record     *)
(* over a fixed universe of keys in which an absent key holds Undef (JSON  *)
(* cannot carry undefined, and a spread {...a, ...b} treats both alike).   *)
(***************************************************************************)
EXTENDS Integers, Sequences, FiniteSets, TLC

Undef == [k |-> "undefined", n |-> 0, s |-> ""]
Null == [k |-> "null", n |-> 0, s |-> ""]
Bool(b) == [k |-> "boolean", n |-> IF b THEN 1 ELSE 0, s |-> ""]
Num(x) == [k |-> "number", n |-> x, s |-> ""]
NaN == [k |-> "number", n |-> 0, s |-> "NaN"]
\* What JSON.parse gives for a numeric literal beyond the double range, such
\* as 1e999: larger than every finite number of the model.
Infinity == [k |-> "number", n |-> 1000000, s |-> "Infinity"]
Str(x) == [k |-> "string", n |-> 0, s |-> x]
Arr(xs) == [k |-> "array", items |-> xs]
\* A built-in function object reached through Object.prototype.
NativeFunction == [k |-> "function", n |-> 0, s |-> "native"]

IsScalar(v) == "k" \in DOMAIN v
IsObject(v) == ~IsScalar(v)
IsString(v) == IsScalar(v) /\ v.k = "string"
IsBoolean(v) == IsScalar(v) /\ v.k = "boolean"
IsNaN(v) == IsScalar(v) /\ v.k = "number" /\ v.s = "NaN"
\* a finite number
IsNumber(v) == IsScalar(v) /\ v.k = "number" /\ v.s = ""

\* x ?? y  tests for null / undefined only
Nullish(v) == IsScalar(v) /\ v.k \in {"undefined", "null"}
Coalesce(v, d) == IF Nullish(v) THEN d ELSE v

\* JS truthiness: !v, v || d, Boolean(v)
Truthy(v) ==
    IF IsObject(v) THEN TRUE
    ELSE CASE v.k \in {"undefined", "null"} -> FALSE
           [] v.k = "boolean" -> v.n = 1
           [] v.k = "number" -> v.s # "NaN" /\ v.n # 0
           [] v.k = "string" -> v.s # ""
           [] OTHER -> TRUE
OrElse(v, d) == IF Truthy(v) THEN v ELSE d
ToBoolean(v) == Bool(Truthy(v))

\* The numeric strings among the strings the inputs use; every other string
\* that is not blank converts to NaN.
NumericStrings == [s \in {"0.5", "1", "42"} |->
                     CASE s = "0.5" -> 5 [] s = "1" -> 10 [] s = "42" -> 420]
BlankStrings == {"", "  "}

\* Number(v)
ToNumber(v) ==
    IF IsObject(v) THEN NaN
    ELSE CASE v.k = "undefined" -> NaN
           [] v.k = "null" -> Num(0)
           [] v.k = "boolean" -> Num(10 * v.n)
           [] v.k = "number" -> v
           [] v.k = "string" ->
                IF v.s \in BlankStrings THEN Num(0)
                ELSE IF v.s \in DOMAIN NumericStrings THEN Num(NumericStrings[v.s])
                ELSE NaN
           [] v.k = "array" -> IF v.items = <<>> THEN Num(0) ELSE NaN
           [] OTHER -> NaN

\* Math.max(lo, v) and Math.min(hi, v): NaN if an argument is NaN
MathMax(lo, v) == IF IsNaN(v) THEN NaN ELSE IF v.n < lo THEN Num(lo) ELSE v
MathMin(hi, v) == IF IsNaN(v) THEN NaN ELSE IF v.n > hi THEN Num(hi) ELSE v

\* String.prototype.trim().toLowerCase() on the strings the inputs use: the
\* strings not listed are already trimmed and lower-case.
TrimLower(s) ==
    CASE s = "AB" -> "ab"
      [] s = " Main " -> "main"
      [] s = "Offer" -> "offer"
      [] s \in BlankStrings -> ""
      [] OTHER -> s

\* JSON.stringify of a scalar: NaN and Infinity are written as null
JsonScalar(v) == IF IsNaN(v) \/ v = Infinity THEN Null ELSE v

\* JSON.stringify of a parsed value: objects and arrays member by member; an
\* absent key stays absent, an array hole or undefined item is written null
RECURSIVE JsonValue(_)
JsonValue(v) ==
    IF IsObject(v) THEN [f \in DOMAIN v |-> JsonValue(v[f])]
    ELSE IF v.k = "array"
         THEN Arr([i \in DOMAIN v.items |->
                     IF v.items[i] = Undef THEN Null ELSE JsonValue(v.items[i])])
         ELSE JsonScalar(v)


(***************************************************************************)
(* Bounds of the model.                                                    *)
(***************************************************************************)
\* inbound frames the server handles in one run
MaxFrames == 2
\* connection identities; each WebSocket is accepted at most once
ConnIds == {"c1", "c2"}
\* "no connection": the exclude option left out
NoConn == "none"

DeckKeys == {"a", "b", "c", "d"}
\* properties every plain object inherits from Object.prototype
ObjectPrototypeProps == {"constructor", "toString", "valueOf", "hasOwnProperty"}

VARIABLES
    state,        \* the Session State object
    clients,      \* the registry: the connections in the Set
    role,         \* client.role of each connection
    readyState,   \* ws.readyState of each connection's socket
    delivered,    \* per connection: the frames handed to ws.send, in order
    clock,        \* number of inbound frames handled so far
    last,         \* the event handled last
    running,      \* the server process is alive
    http,         \* the request of GET /stream/mp4 being served and its response
    uplink,       \* per connection: the frames its client has sent that await handling
    browser       \* per connection: the state of the client's useRealtime hook

vars == <<state, clients, role, readyState, delivered, clock, last, running, http,
          uplink, browser>>

(***************************************************************************)
(* Session State                                                           *)
(***************************************************************************)
defaultMixDeck ==
    [type |-> Null, assetId |-> Null, opacity |-> Num(10), enabled |-> Bool(FALSE),
     label |-> Undef]

defaultDeckMediaState ==
    [isPlaying |-> Bool(FALSE), progress |-> Num(0), isLoading |-> Bool(FALSE),
     error |-> Bool(FALSE), src |-> Null]

InitialState ==
    [fallbackLayers |-> Arr(<<>>),
     controlSettings |-> [modelProvider |-> Str("gemini"), audioInputMode |-> Str("file"),
                          prompt |-> Str("")],
     viewerStatus |-> [isRunning |-> Bool(FALSE), isGenerating |-> Bool(FALSE),
                       error |-> Str(""), audioSensitivity |-> Undef],
     mixState |-> [crossfaderAB |-> Num(5), crossfaderAC |-> Num(5),
                   crossfaderBD |-> Num(5), crossfaderCD |-> Num(5),
                   decks |-> [key \in DeckKeys |-> defaultMixDeck]],
     deckMediaStates |-> [key \in DeckKeys |-> defaultDeckMediaState]]

\* an object with none of the keys of o set
EmptyLike(o) == [f \in DOMAIN o |-> Undef]

\* the object replaced by over instead of merged with it
SpreadReplacing(base, over) ==
    [f \in DOMAIN base |-> IF f \in DOMAIN over THEN over[f] ELSE Undef]

\* { ...base, ...over }: a key of over that is present overwrites
Spread(base, over) ==
    [f \in DOMAIN base |-> IF f \in DOMAIN over /\ over[f] # Undef THEN over[f] ELSE base[f]]

\* obj?.key and obj.key on a non-null value: undefined unless obj is an object
\* holding the key
Field(obj, key) == IF IsObject(obj) /\ key \in DOMAIN obj THEN obj[key] ELSE Undef

\* String(v) as a property key; the deck keys of the inputs are strings,
\* null or undefined
ToPropertyKey(v) ==
    CASE v.k = "string" -> v.s
      [] v.k = "boolean" -> IF v.n = 1 THEN "true" ELSE "false"
      [] v.k = "function" -> "function Object() { [native code] }"
      [] OTHER -> v.k

\* key in obj: an own or an inherited property
HasProperty(obj, key) == key \in DOMAIN obj \/ key \in ObjectPrototypeProps

\* obj[key] on a plain object: an own property, or one inherited from
\* Object.prototype, or undefined
GetProperty(obj, key) ==
    IF key \in DOMAIN obj THEN obj[key]
    ELSE IF key \in ObjectPrototypeProps THEN NativeFunction
    ELSE Undef

\* an assignment that writes the value to every property of the object
SetPropertyOfAll(obj, key, value) == [p \in DOMAIN obj \cup {key} |-> value]

\* obj[key] = value: sets or creates the own property
SetProperty(obj, key, value) ==
    [p \in DOMAIN obj \cup {key} |-> IF p = key THEN value ELSE obj[p]]

\* JSON.stringify of the objects the server sends
JsonRecord(o) == [f \in DOMAIN o |-> JsonScalar(o[f])]
JsonMixState(m) ==
    [crossfaderAB |-> JsonScalar(m.crossfaderAB), crossfaderAC |-> JsonScalar(m.crossfaderAC),
     crossfaderBD |-> JsonScalar(m.crossfaderBD), crossfaderCD |-> JsonScalar(m.crossfaderCD),
     decks |-> [key \in DOMAIN m.decks |-> JsonRecord(m.decks[key])]]
JsonState(st) ==
    [fallbackLayers |-> JsonValue(st.fallbackLayers),
     controlSettings |-> JsonRecord(st.controlSettings),
     viewerStatus |-> JsonRecord(st.viewerStatus),
     mixState |-> JsonMixState(st.mixState),
     deckMediaStates |-> [key \in DOMAIN st.deckMediaStates |->
                            JsonRecord(st.deckMediaStates[key])]]

(***************************************************************************)
(* Registry and broadcast                                                  *)
(***************************************************************************)
\* broadcast() without the exclude test
RecipientsIgnoringExclude(exclude) ==
    {c \in clients : readyState[c] = "OPEN"}

\* broadcast() sending only to the connections that have declared a role
RecipientsWithDeclaredRole(exclude) ==
    {c \in clients : c # exclude /\ readyState[c] = "OPEN" /\ role[c] # Str("unknown")}

\* broadcast() without the readyState test
RecipientsIgnoringReadyState(exclude) ==
    {c \in clients : c # exclude}

\* the clients broadcast() sends to: registered, not excluded, socket OPEN
Recipients(exclude) ==
    {c \in clients : c # exclude /\ readyState[c] = "OPEN"}

\* a broadcast whose frame overtakes what the socket was handed before
BroadcastOvertaking(message, exclude, tick) ==
    [c \in ConnIds |->
        IF c \in Recipients(exclude)
        THEN <<[seq |-> tick, frame |-> message]>> \o delivered[c]
        ELSE delivered[c]]

\* broadcast(message, {exclude}): one ws.send per recipient, appended to what
\* that socket has been handed before; tick is the handler's number
Broadcast(message, exclude, tick) ==
    [c \in ConnIds |->
        IF c \in Recipients(exclude)
        THEN Append(delivered[c], [seq |-> tick, frame |-> message])
        ELSE delivered[c]]

(***************************************************************************)
(* The client: the useRealtime hook of a page                              *)
(***************************************************************************)
MIX_DECK_KEYS == {"a", "b", "c", "d"}
EMPTY_DECK ==
    [type |-> Null, assetId |-> Null, opacity |-> Num(0), enabled |-> Bool(FALSE)]

\* { ...base, ...over } of two parsed objects: the keys of both
SpreadParsed(base, over) ==
    [f \in DOMAIN base \cup DOMAIN over |->
        IF f \in DOMAIN over /\ over[f] # Undef THEN over[f]
        ELSE IF f \in DOMAIN base THEN base[f] ELSE Undef]

\* Math.min(1, Math.max(0, value))
clamp01(value) == MathMin(10, MathMax(0, value))

\* normaliseMixState(incoming): the four decks over EMPTY_DECK, the four
\* crossfaders clamped, 0.5 for one that is missing or null
normaliseMixState(incoming) ==
    LET source == IF IsObject(incoming) THEN incoming ELSE [none |-> Undef]
        decks == IF IsObject(Field(source, "decks")) THEN source.decks
                 ELSE [none |-> Undef]
        deck(key) == IF IsObject(Field(decks, key)) THEN decks[key]
                     ELSE [type |-> Undef]
    IN  [crossfaderAB |->
            clamp01(Coalesce(Field(source, "crossfaderAB"),
                             Coalesce(Field(source, "crossfader"), Num(5)))),
         crossfaderAC |-> clamp01(Coalesce(Field(source, "crossfaderAC"), Num(5))),
         crossfaderBD |-> clamp01(Coalesce(Field(source, "crossfaderBD"), Num(5))),
         crossfaderCD |-> clamp01(Coalesce(Field(source, "crossfaderCD"), Num(5))),
         decks |-> [key \in MIX_DECK_KEYS |-> SpreadParsed(EMPTY_DECK, deck(key))]]

\* the attempts at compiling a generated shader before the viewer gives up
MAX_RETRIES == 5

\* the shaders the generator of one viewer page hands over, at most
MaxCompiles == 6

\* the refs and state of the viewer page before a visualisation has started.
\* generator is whether glslGeneratorRef.current is set, requested the
\* generations asked of it that have not handed over their shader, compiling
\* the subscribe callbacks awaiting updateShader, waiting those in their one
\* second before generateGLSL, success the result of the latest updateShader,
\* regenerations the retries decided since the latest successful compile,
\* rollbacks the calls of rollbackToPreviousShader, compiles the shaders
\* handed over so far.
InitialPage ==
    [generator |-> FALSE,
     requested |-> 0,
     compiling |-> 0,
     waiting |-> 0,
     retryCount |-> 0,
     success |-> "none",
     regenerations |-> 0,
     rollbacks |-> 0,
     compiles |-> 0,
     isRunning |-> FALSE,
     isGenerating |-> FALSE,
     error |-> ""]

\* the hook as useState leaves it; cursor counts the frames of the connection
\* that onmessage has taken. socket is the readyState of the WebSocket the
\* effect creates ("NONE" before the effect has run), wsRef whether wsRef.current
\* holds it, sent the frames handed to ws.send in order, calls the calls of
\* send() so far, lastCall the message of the latest one and page the viewer
\* page that uses the hook.
InitialHook ==
    [connectionState |-> "connecting",
     socket |-> "NONE",
     wsRef |-> FALSE,
     role |-> Undef,
     sent |-> <<>>,
     calls |-> 0,
     lastCall |-> Undef,
     page |-> InitialPage,
     cursor |-> 0,
     fallbackLayers |-> Arr(<<>>),
     controlSettings |-> [modelProvider |-> Str("gemini"), audioInputMode |-> Str("file"),
                          prompt |-> Str("")],
     viewerStatus |-> [isRunning |-> Bool(FALSE), isGenerating |-> Bool(FALSE),
                       error |-> Str("")],
     mixState |-> normaliseMixState(Undef)]

\* No request of GET /stream/mp4 is being served. A response holds the
\* request, the paths handed to fs.promises.stat and fs.createReadStream, the
\* status and headers set on res, the status lines written to the socket,
\* whether the read stream has emitted 'error' and whether res was destroyed.
NoRequest ==
    [phase |-> "idle",
     requestedPath |-> <<>>,
     rangeHeader |-> [present |-> FALSE, tokens |-> <<>>],
     statted |-> <<>>,
     opened |-> <<>>,
     size |-> 0,
     statusCode |-> 200,
     contentRange |-> [form |-> "none", start |-> 0, end |-> 0, size |-> 0],
     contentLength |-> -1,
     statusLines |-> <<>>,
     errored |-> FALSE,
     destroyed |-> FALSE]

\* broadcastMixState() for the mix state m
MixStateFrame(m) == [type |-> Str("mix-state"), payload |-> JsonMixState(m)]

Init ==
    /\ state = InitialState
    /\ clients = {}
    /\ role = [c \in ConnIds |-> Str("unknown")]
    /\ readyState = [c \in ConnIds |-> "NONE"]
    /\ delivered = [c \in ConnIds |-> <<>>]
    /\ clock = 0
    /\ last = [op |-> "start", conn |-> NoConn, message |-> Undef]
    /\ running = TRUE
    /\ http = NoRequest
    /\ uplink = [c \in ConnIds |-> <<>>]
    /\ browser = [c \in ConnIds |-> InitialHook]

\* wss.on('connection'): register with role unknown and send the init frame.
\* The frame's assets are the catalog read from disk, which no claim reads.
Connection(c) ==
    /\ running
    /\ readyState[c] = "NONE"
    /\ readyState' = [readyState EXCEPT ![c] = "OPEN"]
    /\ clients' = clients \cup {c}
    /\ role' = [role EXCEPT ![c] = Str("unknown")]
    /\ delivered' = [delivered EXCEPT ![c] =
                        Append(@, [seq |-> clock,
                                   frame |-> [type |-> Str("init"),
                                              payload |-> [state |-> JsonState(state)]]])]
    /\ last' = [op |-> "connection", conn |-> c, message |-> Undef]
    /\ UNCHANGED <<state, clock, running, http, uplink, browser>>

\* The peer closes or the transport fails: the socket leaves OPEN before the
\* 'close' event is emitted.
SocketClosing(c) ==
    /\ running
    /\ readyState[c] = "OPEN"
    /\ readyState' = [readyState EXCEPT ![c] = "CLOSING"]
    /\ last' = [op |-> "closing", conn |-> c, message |-> Undef]
    /\ UNCHANGED <<state, clients, role, delivered, clock, running, http, uplink, browser>>

\* a close handler that leaves the registry as it is
UnregisterNothing(registry, c) == registry

\* clients.delete(client): a Set without the member, the same Set if it was
\* not a member
Unregister(registry, c) == registry \ {c}

\* ws.on('close')
Close(c) ==
    /\ running
    /\ readyState[c] = "CLOSING"
    /\ readyState' = [readyState EXCEPT ![c] = "CLOSED"]
    /\ clients' = Unregister(clients, c)
    /\ last' = [op |-> "close", conn |-> c, message |-> Undef]
    /\ UNCHANGED <<state, role, delivered, clock, running, http, uplink, browser>>

\* A 'message' event of connection c is handled: the listener exists from the
\* 'connection' event on, and ws emits no message after 'close'.
CanReceive(c) ==
    /\ running
    /\ c \in clients
    /\ readyState[c] \in {"OPEN", "CLOSING"}
    /\ clock < MaxFrames

\* What every message handler does besides its own case. The frame handled
\* is the oldest one the connection's client has in flight, if the client is
\* one whose sends are followed; otherwise it is a frame from outside.
Handled(c, message) ==
    /\ clock' = clock + 1
    /\ last' = [op |-> "message", conn |-> c, message |-> message]
    /\ IF uplink[c] = <<>>
       THEN UNCHANGED uplink
       ELSE /\ message = Head(uplink[c])
            /\ uplink' = [uplink EXCEPT ![c] = Tail(@)]
    /\ UNCHANGED <<clients, readyState, running, http, browser>>


\* an inbound frame that parsed to an object {type, role, rtc, payload}
Message(type, payload) ==
    [type |-> Str(type), role |-> Undef, rtc |-> Undef, payload |-> payload]

\* message.type and message.payload of a parsed frame that is not null
TypeOf(message) == Field(message, "type")
PayloadOf(message) == Field(message, "payload")

(***************************************************************************)
(* case 'update-mix-deck'                                                  *)
(***************************************************************************)
DeckData(type, assetId, opacity, enabled, label) ==
    [type |-> type, assetId |-> assetId, opacity |-> opacity, enabled |-> enabled,
     label |-> label]

\* message.payload?.data || {} : what the spread takes from it
DataOf(message) ==
    LET data == Field(PayloadOf(message), "data")
    IN  IF IsObject(data) THEN data ELSE EmptyLike(defaultMixDeck)

\* the deck replaced by the data instead of merged with it
MergeDeckDroppingExisting(existing, data) ==
    Spread(EmptyLike(defaultMixDeck), data)

\* { ...state.mixState.decks[deck], ...data }; an inherited function has no
\* enumerable property of its own
MergeDeck(existing, data) ==
    Spread(IF IsObject(existing) THEN existing ELSE EmptyLike(defaultMixDeck), data)

\* the normalisation without the 'generative' branch
NormaliseSourceKeepingAsset(current) ==
    LET type1 == IF current.type \in {Str("shader"), Str("video"), Str("generative")}
                 THEN current.type ELSE Null
    IN  IF ~Truthy(current.assetId) \/ ~Truthy(type1)
        THEN [current EXCEPT !.type = Null, !.assetId = Null]
        ELSE [current EXCEPT !.type = type1]

\* the normalisation clearing only the type when the pair is incomplete
NormaliseSourceClearingTypeOnly(current) ==
    LET type1 == IF current.type \in {Str("shader"), Str("video"), Str("generative")}
                 THEN current.type ELSE Null
    IN  IF type1 = Str("generative")
        THEN [current EXCEPT !.type = type1, !.assetId = Null]
        ELSE IF ~Truthy(current.assetId) \/ ~Truthy(type1)
             THEN [current EXCEPT !.type = Null]
             ELSE [current EXCEPT !.type = type1]

\* the type / assetId normalisation
NormaliseSource(current) ==
    LET type1 == IF current.type \in {Str("shader"), Str("video"), Str("generative")}
                 THEN current.type ELSE Null
    IN  IF type1 = Str("generative")
        THEN [current EXCEPT !.type = type1, !.assetId = Null]
        ELSE IF ~Truthy(current.assetId) \/ ~Truthy(type1)
             THEN [current EXCEPT !.type = Null, !.assetId = Null]
             ELSE [current EXCEPT !.type = type1]

\* a clamp that doubles the opacity before bounding it
ClampOpacityDoubling(opacity) ==
    LET number == ToNumber(Coalesce(opacity, Num(10)))
    IN  MathMin(10, MathMax(0, IF IsNaN(number) THEN number ELSE Num(2 * number.n)))

\* Math.min(1, Math.max(0, Number(current.opacity ?? 1)))
ClampOpacity(opacity) == MathMin(10, MathMax(0, ToNumber(Coalesce(opacity, Num(10)))))

\* the deck after the invariants are applied
NormaliseDeck(current) ==
    LET sourced == NormaliseSource(current)
    IN  [sourced EXCEPT !.opacity = ClampOpacity(current.opacity),
                        !.enabled = ToBoolean(current.enabled)]

\* the guard: deck && state.mixState.decks[deck]
DeckGuard(decks, deck) ==
    Truthy(deck) /\ Truthy(GetProperty(decks, ToPropertyKey(deck)))

UpdateMixDeck(c, message) ==
    /\ CanReceive(c)
    /\ TypeOf(message) = Str("update-mix-deck")
    /\ LET deck == Field(PayloadOf(message), "deck")
           decks == state.mixState.decks
       IN  IF DeckGuard(decks, deck)
           THEN LET key == ToPropertyKey(deck)
                    current == NormaliseDeck(MergeDeck(GetProperty(decks, key), DataOf(message)))
                    mix == [state.mixState EXCEPT !.decks = SetProperty(decks, key, current)]
                IN  /\ state' = [state EXCEPT !.mixState = mix]
                    /\ delivered' = Broadcast(MixStateFrame(mix), NoConn, clock + 1)
           ELSE UNCHANGED <<state, delivered>>
    /\ Handled(c, message)
    /\ UNCHANGED role

NoData == DeckData(Undef, Undef, Undef, Undef, Undef)
Clip == Str("cat/clip.mp4")

\* Partial deck data: every pairing of a type with an assetId, then each
\* opacity, each enabled and an unknown key alone, and the documented example.
DeckDataInputs ==
    {DeckData(t, a, Undef, Undef, Undef) :
        t \in {Undef, Str("video"), Str("generative"), Str("bogus")},
        a \in {Undef, Str(""), Clip}}
    \cup {DeckData(Str("shader"), Str("plasma.glsl"), Undef, Undef, Undef)}
    \cup {DeckData(Undef, Undef, o, Undef, Undef) :
            o \in {Null, Num(15), Num(-5), Num(3), Str("abc")}}
    \cup {DeckData(Undef, Undef, Undef, e, Undef) : e \in {Bool(TRUE), Str("yes"), Num(0)}}
    \cup {DeckData(Undef, Undef, Undef, Undef, Str("intro"))}
    \cup {DeckData(Str("video"), Clip, Undef, Bool(TRUE), Undef)}

MixDeckPayload(deck, data) == [deck |-> deck, data |-> data]

MixDeckInputs ==
    {Message("update-mix-deck", MixDeckPayload(Str("a"), d)) : d \in DeckDataInputs}
    \cup {Message("update-mix-deck", MixDeckPayload(k, DeckData(Str("video"), Clip, Undef, Undef, Undef))) :
            k \in {Str("d"), Str("constructor"), Str("z"), Str(""), Undef}}
    \cup {Message("update-mix-deck", Undef),
          Message("update-mix-deck", [deck |-> Str("a"), data |-> Undef])}

\* The server with one controller connected, under mix-deck updates only.
NextDecks ==
    \/ Connection("c1")
    \/ SocketClosing("c1")
    \/ Close("c1")
    \/ \E m \in MixDeckInputs : UpdateMixDeck("c1", m)

SpecDecks == Init /\ [][NextDecks]_vars


(***************************************************************************)
(* case 'update-crossfader' / 'updateCrossfader'                           *)
(***************************************************************************)
crossfaderFieldMap ==
    [main |-> Str("crossfaderAB"), ab |-> Str("crossfaderAB"), ac |-> Str("crossfaderAC"),
     bd |-> Str("crossfaderBD"), cd |-> Str("crossfaderCD")]

\* typeof payload.target === 'string' ? payload.target.trim().toLowerCase() : undefined
TargetOf(payload) ==
    LET target == Field(payload, "target")
    IN  IF IsString(target) THEN Str(TrimLower(target.s)) ELSE Undef

\* target ? crossfaderFieldMap[target] : undefined
FieldOf(target) ==
    IF Truthy(target) THEN GetProperty(crossfaderFieldMap, target.s) ELSE Undef

\* Math.min(1, Math.max(0, Number(payload.value ?? 0)))
ClampValue(value) == MathMin(10, MathMax(0, ToNumber(Coalesce(value, Num(0)))))

\* the guards without the test that the field is one of the mix state
CrossfaderAcceptedAnyField(mixState, payload) ==
    /\ Truthy(payload)
    /\ Truthy(FieldOf(TargetOf(payload)))

\* applyCrossfaderUpdate returns true: the payload is there and names a field
\* of the mix state
CrossfaderAccepted(mixState, payload) ==
    /\ Truthy(payload)
    /\ Truthy(FieldOf(TargetOf(payload)))
    /\ HasProperty(mixState, ToPropertyKey(FieldOf(TargetOf(payload))))

UpdateCrossfader(c, message) ==
    /\ CanReceive(c)
    /\ TypeOf(message) \in {Str("update-crossfader"), Str("updateCrossfader")}
    /\ IF CrossfaderAccepted(state.mixState, PayloadOf(message))
       THEN LET field == FieldOf(TargetOf(PayloadOf(message))).s
                value == ClampValue(Field(PayloadOf(message), "value"))
                mix == SetProperty(state.mixState, field, value)
            IN  /\ state' = [state EXCEPT !.mixState = mix]
                /\ delivered' = Broadcast(MixStateFrame(mix), NoConn, clock + 1)
       ELSE UNCHANGED <<state, delivered>>
    /\ Handled(c, message)
    /\ UNCHANGED role

CrossfaderPayload(target, value) == [target |-> target, value |-> value]

CrossfaderTargets == {"main", "ab", "ac", "bd", "cd"}

CrossfaderInputs ==
    {Message("update-crossfader", CrossfaderPayload(t, v)) :
        t \in {Str("AB"), Str("cd")},
        v \in {Num(15), Num(-5), Num(3), Str("abc"), Str("0.5"), Undef}}
    \cup {Message("update-crossfader", CrossfaderPayload(t, Num(15))) :
            t \in {Str(" Main "), Str("ac"), Str("bd")}}
    \cup {Message("updateCrossfader", CrossfaderPayload(t, Num(15))) :
            t \in {Str("AB"), Str("main"), Str("xy")}}
    \cup {Message("update-crossfader", CrossfaderPayload(t, Num(15))) :
            t \in {Str("xy"), Str("constructor"), Str("  "), Num(10), Undef}}
    \cup {Message("update-crossfader", Undef), Message("update-crossfader", Null),
          Message("updateCrossfader", Undef)}

\* The server with one controller connected, under crossfader updates only.
NextCrossfader ==
    \/ Connection("c1")
    \/ SocketClosing("c1")
    \/ Close("c1")
    \/ \E m \in CrossfaderInputs : UpdateCrossfader("c1", m)

SpecCrossfader == Init /\ [][NextCrossfader]_vars


(***************************************************************************)
(* The cases that replace or merge a component and tell the others         *)
(***************************************************************************)
\* ...(message.payload || {}) : what the spread takes from it
ObjectOrEmpty(payload, like) == IF IsObject(payload) THEN payload ELSE EmptyLike(like)

\* case 'update-fallback-layers'
UpdateFallbackLayers(c, message) ==
    /\ CanReceive(c)
    /\ TypeOf(message) = Str("update-fallback-layers")
    /\ LET layers == OrElse(PayloadOf(message), Arr(<<>>))
       IN  /\ state' = [state EXCEPT !.fallbackLayers = layers]
           /\ delivered' = Broadcast([type |-> Str("fallback-layers"),
                                      payload |-> JsonValue(layers)], c, clock + 1)
    /\ Handled(c, message)
    /\ UNCHANGED role

\* case 'update-control-settings'
UpdateControlSettings(c, message) ==
    /\ CanReceive(c)
    /\ TypeOf(message) = Str("update-control-settings")
    /\ LET settings == Spread(state.controlSettings,
                              ObjectOrEmpty(PayloadOf(message), state.controlSettings))
       IN  /\ state' = [state EXCEPT !.controlSettings = settings]
           /\ delivered' = Broadcast([type |-> Str("control-settings"),
                                      payload |-> JsonRecord(settings)], c, clock + 1)
    /\ Handled(c, message)
    /\ UNCHANGED role

\* case 'viewer-status'
ViewerStatus(c, message) ==
    /\ CanReceive(c)
    /\ TypeOf(message) = Str("viewer-status")
    /\ LET status == Spread(state.viewerStatus,
                            ObjectOrEmpty(PayloadOf(message), state.viewerStatus))
       IN  /\ state' = [state EXCEPT !.viewerStatus = status]
           /\ delivered' = Broadcast([type |-> Str("viewer-status"),
                                      payload |-> JsonRecord(status)], c, clock + 1)
    /\ Handled(c, message)
    /\ UNCHANGED role

(***************************************************************************)
(* case 'deck-media-state'                                                 *)
(***************************************************************************)
\* Math.max(0, Math.min(100, Number(deckState.progress ?? 0)))
ClampProgress(progress) == MathMax(0, MathMin(1000, ToNumber(Coalesce(progress, Num(0)))))

\* typeof src === 'string' && src.trim().length > 0 ? src : null
CoerceSrc(src) == IF IsString(src) /\ src.s \notin BlankStrings THEN src ELSE Null

CoerceMediaState(deckState) ==
    [isPlaying |-> ToBoolean(Field(deckState, "isPlaying")),
     progress |-> ClampProgress(Field(deckState, "progress")),
     isLoading |-> ToBoolean(Field(deckState, "isLoading")),
     error |-> ToBoolean(Field(deckState, "error")),
     src |-> CoerceSrc(Field(deckState, "src"))]

\* the guard: deck && state.deckMediaStates[deck] && deckState
MediaGuard(mediaStates, deck, deckState) ==
    DeckGuard(mediaStates, deck) /\ Truthy(deckState)

DeckMediaState(c, message) ==
    /\ CanReceive(c)
    /\ TypeOf(message) = Str("deck-media-state")
    /\ LET deck == Field(PayloadOf(message), "deck")
           deckState == Field(PayloadOf(message), "state")
       IN  IF MediaGuard(state.deckMediaStates, deck, deckState)
           THEN LET media == CoerceMediaState(deckState)
                IN  /\ state' = [state EXCEPT !.deckMediaStates =
                                    SetProperty(@, ToPropertyKey(deck), media)]
                    /\ delivered' = Broadcast([type |-> Str("deck-media-state"),
                                               payload |-> [deck |-> deck,
                                                            state |-> JsonRecord(media)]],
                                              c, clock + 1)
           ELSE UNCHANGED <<state, delivered>>
    /\ Handled(c, message)
    /\ UNCHANGED role

(***************************************************************************)
(* Relayed messages, registration, and frames that are dropped             *)
(***************************************************************************)
PassThroughTypes ==
    {Str("start-visualization"), Str("stop-visualization"), Str("regenerate-shader"),
     Str("set-audio-sensitivity"), Str("code-progress")}

\* broadcast(message, { exclude: ws })
PassThrough(c, message) ==
    /\ CanReceive(c)
    /\ TypeOf(message) \in PassThroughTypes
    /\ delivered' = Broadcast(JsonValue(message), c, clock + 1)
    /\ Handled(c, message)
    /\ UNCHANGED <<state, role>>

RTCKinds == {"offer", "answer", "ice-candidate", "request-offer"}

\* handleRTCSignaling relays: message.rtc is a string naming a kind
RTCAccepted(message) ==
    LET rtc == Field(message, "rtc")
    IN  IsString(rtc) /\ TrimLower(rtc.s) \in RTCKinds

\* case 'rtc-signal'
RTCSignal(c, message) ==
    /\ CanReceive(c)
    /\ TypeOf(message) = Str("rtc-signal")
    /\ IF RTCAccepted(message)
       THEN delivered' = Broadcast([type |-> Str("rtc-signal"),
                                    rtc |-> Str(TrimLower(Field(message, "rtc").s)),
                                    payload |-> JsonValue(Coalesce(PayloadOf(message), Null))],
                                   c, clock + 1)
       ELSE UNCHANGED delivered
    /\ Handled(c, message)
    /\ UNCHANGED <<state, role>>

\* case 'register': client.role = message.role || 'unknown'
Register(c, message) ==
    /\ CanReceive(c)
    /\ TypeOf(message) = Str("register")
    /\ role' = [role EXCEPT ![c] = OrElse(Field(message, "role"), Str("unknown"))]
    /\ Handled(c, message)
    /\ UNCHANGED <<state, delivered>>

HandledTypes ==
    {Str("register"), Str("update-fallback-layers"), Str("update-control-settings"),
     Str("update-mix-deck"), Str("update-crossfader"), Str("updateCrossfader"),
     Str("viewer-status"), Str("deck-media-state"), Str("rtc-signal")}
    \cup PassThroughTypes

\* default: any other type, or none (a number or a string has no type)
Unhandled(c, message) ==
    /\ CanReceive(c)
    /\ message # Null
    /\ TypeOf(message) \notin HandledTypes
    /\ Handled(c, message)
    /\ UNCHANGED <<state, role, delivered>>

\* the text of a frame that JSON.parse rejects
MalformedJSON == [k |-> "malformed-json", n |-> 0, s |-> "{oops"]

\* JSON.parse outside a try block: the SyntaxError ends the process
MalformedFrameUncaught(c) ==
    /\ CanReceive(c)
    /\ clock' = clock + 1
    /\ last' = [op |-> "message", conn |-> c, message |-> MalformedJSON]
    /\ running' = FALSE
    /\ UNCHANGED <<state, clients, role, readyState, delivered, http, uplink, browser>>

\* JSON.parse throws: caught, logged, the frame is dropped
MalformedFrame(c) ==
    /\ CanReceive(c)
    /\ Handled(c, MalformedJSON)
    /\ UNCHANGED <<state, role, delivered>>

\* The frame is the JSON text null: message.type throws a TypeError that no
\* handler catches, and the process ends.
NullFrame(c) ==
    /\ CanReceive(c)
    /\ clock' = clock + 1
    /\ last' = [op |-> "message", conn |-> c, message |-> Null]
    /\ running' = FALSE
    /\ UNCHANGED <<state, clients, role, readyState, delivered, http, uplink, browser>>


(***************************************************************************)
(* The relay: the frames that are passed on or dropped                     *)
(***************************************************************************)
\* one frame of each pass-through type, and a value whose literal (1e999) is
\* beyond the double range
PassThroughInputs ==
    {Message("start-visualization", [modelProvider |-> Str("gemini"), prompt |-> Str("neon")]),
     Message("stop-visualization", Undef),
     Message("regenerate-shader", Undef),
     Message("set-audio-sensitivity", [value |-> Num(5)]),
     Message("set-audio-sensitivity", [value |-> Infinity]),
     Message("code-progress", [code |-> Str("void main"), isComplete |-> Bool(FALSE)])}

RTCMessage(rtc, payload) ==
    [type |-> Str("rtc-signal"), role |-> Undef, rtc |-> rtc, payload |-> payload]

Sdp == [sdp |-> Str("v=0")]

\* each kind, one not in lower case, one without payload, and signals that
\* name no kind
RTCInputs ==
    {RTCMessage(Str(kind), Sdp) : kind \in {"offer", "Offer", "answer", "ice-candidate",
                                            "request-offer", "bye"}}
    \cup {RTCMessage(Str("request-offer"), Undef), RTCMessage(Num(10), Sdp),
          RTCMessage(Undef, Sdp)}

\* an unknown type, an object without a type, and JSON texts that are a
\* number and a string
UnhandledInputs ==
    {Message("nope", Undef),
     [type |-> Undef, role |-> Undef, rtc |-> Undef, payload |-> Sdp],
     Num(50), Str("hello")}

NextRelay ==
    \/ \E c \in ConnIds : Connection(c)
    \/ \E c \in ConnIds : SocketClosing(c)
    \/ \E c \in ConnIds : Close(c)
    \/ \E c \in ConnIds : \E m \in PassThroughInputs : PassThrough(c, m)
    \/ \E c \in ConnIds : \E m \in RTCInputs : RTCSignal(c, m)
    \/ \E c \in ConnIds : \E m \in UnhandledInputs : Unhandled(c, m)
    \/ \E c \in ConnIds : MalformedFrame(c)
    \/ \E c \in ConnIds : NullFrame(c)

SpecRelay == Init /\ [][NextRelay]_vars


(***************************************************************************)
(* Registration: connections declaring roles among frames of other kinds   *)
(***************************************************************************)
RegisterMessage(declared) ==
    [type |-> Str("register"), role |-> declared, rtc |-> Undef, payload |-> Undef]

\* the two roles of the clients, and a register message with no role or an
\* empty one
RegisterInputs ==
    {RegisterMessage(declared) : declared \in {Str("viewer"), Str("controller"), Undef, Str("")}}

RolesViewerStatusInputs ==
    {Message("viewer-status",
             [isRunning |-> Bool(TRUE), isGenerating |-> Undef, error |-> Undef,
              audioSensitivity |-> Undef])}
RolesPassThroughInputs == {Message("stop-visualization", Undef)}
RolesCrossfaderInputs == {Message("update-crossfader", CrossfaderPayload(Str("AB"), Num(15)))}

NextRoles ==
    \/ \E c \in ConnIds : Connection(c)
    \/ \E c \in ConnIds : SocketClosing(c)
    \/ \E c \in ConnIds : Close(c)
    \/ \E c \in ConnIds : \E m \in RegisterInputs : Register(c, m)
    \/ \E c \in ConnIds : \E m \in RolesViewerStatusInputs : ViewerStatus(c, m)
    \/ \E c \in ConnIds : \E m \in RolesPassThroughInputs : PassThrough(c, m)
    \/ \E c \in ConnIds : \E m \in RolesCrossfaderInputs : UpdateCrossfader(c, m)

SpecRoles == Init /\ [][NextRoles]_vars


(***************************************************************************)
(* The hub: every case of the switch, a few frames of each kind            *)
(***************************************************************************)
HubMixDeckInputs ==
    {Message("update-mix-deck", MixDeckPayload(Str("a"), d)) :
        d \in {DeckData(Str("video"), Clip, Undef, Bool(TRUE), Undef),
               DeckData(Undef, Undef, Str("abc"), Undef, Undef)}}
    \cup {Message("update-mix-deck",
                  MixDeckPayload(k, DeckData(Str("video"), Clip, Undef, Undef, Undef))) :
            k \in {Str("constructor"), Str("z")}}

HubCrossfaderInputs ==
    {Message("update-crossfader", CrossfaderPayload(Str("AB"), Num(15))),
     Message("update-crossfader", CrossfaderPayload(Str("xy"), Num(15)))}

Layer(id) == [id |-> Str(id), type |-> Str("shader"), name |-> Str(id),
              opacity |-> Num(10), order |-> Num(0)]

FallbackLayersInputs ==
    {Message("update-fallback-layers", Arr(<<Layer("plasma.glsl")>>)),
     Message("update-fallback-layers", Undef)}

ControlSettingsInputs ==
    {Message("update-control-settings",
             [modelProvider |-> Undef, audioInputMode |-> Undef, prompt |-> Str("neon")])}

ViewerStatusInputs ==
    {Message("viewer-status",
             [isRunning |-> Bool(TRUE), isGenerating |-> Undef, error |-> Undef,
              audioSensitivity |-> Undef])}

MediaState(isPlaying, progress, src) ==
    [isPlaying |-> isPlaying, progress |-> progress, isLoading |-> Undef,
     error |-> Undef, src |-> src]
MediaPayload(deck, deckState) == [deck |-> deck, state |-> deckState]

HubMediaInputs ==
    {Message("deck-media-state", MediaPayload(Str("a"), MediaState(Bool(TRUE), Num(500), Clip))),
     Message("deck-media-state", MediaPayload(Str("z"), MediaState(Bool(TRUE), Num(500), Clip))),
     Message("deck-media-state", MediaPayload(Str("constructor"), MediaState(Bool(TRUE), Num(500), Clip)))}

Next ==
    \/ \E c \in ConnIds : Connection(c)
    \/ \E c \in ConnIds : SocketClosing(c)
    \/ \E c \in ConnIds : Close(c)
    \/ \E c \in ConnIds : \E m \in HubMixDeckInputs : UpdateMixDeck(c, m)
    \/ \E c \in ConnIds : \E m \in HubCrossfaderInputs : UpdateCrossfader(c, m)
    \/ \E c \in ConnIds : \E m \in FallbackLayersInputs : UpdateFallbackLayers(c, m)
    \/ \E c \in ConnIds : \E m \in ControlSettingsInputs : UpdateControlSettings(c, m)
    \/ \E c \in ConnIds : \E m \in ViewerStatusInputs : ViewerStatus(c, m)
    \/ \E c \in ConnIds : \E m \in HubMediaInputs : DeckMediaState(c, m)

Spec == Init /\ [][Next]_vars


(***************************************************************************)
(* Settings: the components that are merged and the one that is replaced   *)
(***************************************************************************)
Settings(modelProvider, audioInputMode, prompt) ==
    [modelProvider |-> modelProvider, audioInputMode |-> audioInputMode, prompt |-> prompt]

Status(isRunning, isGenerating, error, audioSensitivity) ==
    [isRunning |-> isRunning, isGenerating |-> isGenerating, error |-> error,
     audioSensitivity |-> audioSensitivity]

\* one field, two fields, a field set to null, and no payload
SettingsInputs ==
    {Message("update-control-settings", Settings(Undef, Undef, Str("neon"))),
     Message("update-control-settings", Settings(Str("openai"), Str("microphone"), Undef)),
     Message("update-control-settings", Settings(Undef, Undef, Null)),
     Message("update-control-settings", Undef)}

\* one field, two fields of which one is new to the status, and a null payload
StatusInputs ==
    {Message("viewer-status", Status(Bool(TRUE), Undef, Undef, Undef)),
     Message("viewer-status", Status(Undef, Undef, Str("boom"), Num(7))),
     Message("viewer-status", Null)}

\* a list, another list, the empty list, and no payload
LayersInputs ==
    {Message("update-fallback-layers", Arr(<<Layer("plasma.glsl")>>)),
     Message("update-fallback-layers", Arr(<<Layer("clip.mp4"), Layer("rings.glsl")>>)),
     Message("update-fallback-layers", Arr(<<>>)),
     Message("update-fallback-layers", Undef)}

NextSettings ==
    \/ \E c \in ConnIds : Connection(c)
    \/ \E c \in ConnIds : SocketClosing(c)
    \/ \E c \in ConnIds : Close(c)
    \/ \E c \in ConnIds : \E m \in SettingsInputs : UpdateControlSettings(c, m)
    \/ \E c \in ConnIds : \E m \in StatusInputs : ViewerStatus(c, m)
    \/ \E c \in ConnIds : \E m \in LayersInputs : UpdateFallbackLayers(c, m)

SpecSettings == Init /\ [][NextSettings]_vars


(***************************************************************************)
(* Media: deck-media-state frames of every shape                           *)
(***************************************************************************)
\* flags and a progress as the viewer reports them, with values that need
\* coercion: a string and a number for a flag, a progress beyond either end,
\* a numeric and a non-numeric string, a blank and a non-string src
MediaStateInputs ==
    {MediaState(Bool(TRUE), Num(500), Clip),
     MediaState(Undef, Undef, Undef),
     MediaState(Str("yes"), Num(1500), Str("  ")),
     MediaState(Num(0), Num(-5), Num(10)),
     MediaState(Bool(TRUE), Str("42"), Str("")),
     MediaState(Bool(TRUE), Str("abc"), Clip),
     [MediaState(Bool(FALSE), Null, Null) EXCEPT !.isLoading = Bool(TRUE), !.error = Str("boom")]}

MediaInputs ==
    {Message("deck-media-state", MediaPayload(Str("a"), s)) : s \in MediaStateInputs}
    \cup {Message("deck-media-state", MediaPayload(k, MediaState(Bool(TRUE), Num(500), Clip))) :
            k \in {Str("d"), Str("z"), Str("constructor"), Str(""), Undef}}
    \cup {Message("deck-media-state", MediaPayload(Str("a"), Undef)),
          Message("deck-media-state", MediaPayload(Str("a"), Null)),
          Message("deck-media-state", Undef)}

NextMedia ==
    \/ \E c \in ConnIds : Connection(c)
    \/ \E c \in ConnIds : SocketClosing(c)
    \/ \E c \in ConnIds : Close(c)
    \/ \E c \in ConnIds : \E m \in MediaInputs : DeckMediaState(c, m)

SpecMedia == Init /\ [][NextMedia]_vars


(***************************************************************************)
(* GET /stream/mp4/<path>: the video streaming endpoint.  Paths are         *)
(* sequences of characters; the server runs on a POSIX host, where "/" is   *)
(* the only separator and path.sep.                                         *)
(***************************************************************************)
\* the asset root, path.resolve(__dirname, '../mp4')
mp4Dir == <<"/", "s", "/", "m">>

DotDot == <<".", ".">>

\* String.prototype.trim
RECURSIVE TrimStart(_)
TrimStart(p) == IF p # <<>> /\ Head(p) = " " THEN TrimStart(Tail(p)) ELSE p

RECURSIVE TrimEnd(_)
TrimEnd(p) ==
    IF p # <<>> /\ p[Len(p)] = " " THEN TrimEnd(SubSeq(p, 1, Len(p) - 1)) ELSE p

Trim(p) == TrimEnd(TrimStart(p))

\* String.prototype.split('/')
RECURSIVE Segments(_)
Segments(p) ==
    IF p = <<>>
    THEN << <<>> >>
    ELSE LET rest == Segments(Tail(p))
         IN  IF Head(p) = "/"
             THEN << <<>> >> \o rest
             ELSE << <<Head(p)>> \o Head(rest) >> \o Tail(rest)

\* Array.prototype.join('/')
RECURSIVE Joined(_)
Joined(segments) ==
    IF segments = <<>> THEN <<>>
    ELSE IF Len(segments) = 1 THEN Head(segments)
    ELSE Head(segments) \o <<"/">> \o Joined(Tail(segments))

\* normalizeString of node:path: drops empty and "." segments, lets ".." take
\* back the segment before it, and keeps a ".." that has nothing to take back
\* only if the path may climb above its start
RECURSIVE NormalizeString(_, _, _)
NormalizeString(segments, kept, allowAboveRoot) ==
    IF segments = <<>> THEN kept
    ELSE LET segment == Head(segments)
             rest == Tail(segments)
         IN  IF segment = <<>> \/ segment = <<".">>
             THEN NormalizeString(rest, kept, allowAboveRoot)
             ELSE IF segment = DotDot
             THEN IF kept # <<>> /\ kept[Len(kept)] # DotDot
                  THEN NormalizeString(rest, SubSeq(kept, 1, Len(kept) - 1),
                                       allowAboveRoot)
                  ELSE IF allowAboveRoot
                  THEN NormalizeString(rest, Append(kept, DotDot), allowAboveRoot)
                  ELSE NormalizeString(rest, kept, allowAboveRoot)
             ELSE NormalizeString(rest, Append(kept, segment), allowAboveRoot)

IsAbsolute(p) == p # <<>> /\ Head(p) = "/"

\* path.normalize
Normalize(p) ==
    IF p = <<>> THEN <<".">>
    ELSE LET trailingSeparator == p[Len(p)] = "/"
             body == Joined(NormalizeString(Segments(p), <<>>, ~IsAbsolute(p)))
         IN  IF body = <<>>
             THEN IF IsAbsolute(p) THEN <<"/">>
                  ELSE IF trailingSeparator THEN <<".", "/">> ELSE <<".">>
             ELSE (IF IsAbsolute(p) THEN <<"/">> ELSE <<>>)
                  \o body
                  \o (IF trailingSeparator THEN <<"/">> ELSE <<>>)

\* .replace(/^([/\\])+/, ''): the leading run of slashes and backslashes goes
RECURSIVE StripLeadingSeparators(_)
StripLeadingSeparators(p) ==
    IF p # <<>> /\ Head(p) \in {"/", "\\"}
    THEN StripLeadingSeparators(Tail(p))
    ELSE p

\* String.prototype.includes('..')
IncludesDotDot(p) ==
    \E i \in 1..(Len(p) - 1) : p[i] = "." /\ p[i + 1] = "."

\* String.prototype.startsWith
StartsWith(p, prefix) ==
    /\ Len(p) >= Len(prefix)
    /\ SubSeq(p, 1, Len(prefix)) = prefix

\* path.resolve(from, to) for an absolute from
Resolve(from, to) ==
    LET joined == IF IsAbsolute(to) THEN to ELSE from \o <<"/">> \o to
    IN  <<"/">> \o Joined(NormalizeString(Segments(joined), <<>>, FALSE))

normalizedPath(requestedPath) == StripLeadingSeparators(Normalize(requestedPath))

absolutePath(requestedPath) == Resolve(mp4Dir, normalizedPath(requestedPath))

isInsideMp4Dir(absolute) ==
    absolute = mp4Dir \/ StartsWith(absolute, mp4Dir \o <<"/">>)

\* a validation that lets every path through
PathAcceptedAlways(requestedPath) == FALSE

\* the two answers 400 'Invalid video path'
PathRejected(requestedPath) ==
    \/ IncludesDotDot(normalizedPath(requestedPath))
    \/ ~isInsideMp4Dir(absolutePath(requestedPath))

(***************************************************************************)
(* The Range header.  A header is a sequence of tokens: a run of digits is  *)
(* one token, with its value, or with the mark that the run is too long for *)
(* a double; every other piece of text is a literal token.                  *)
(***************************************************************************)
Lit(text) == [t |-> "lit", s |-> text, n |-> 0, overflow |-> FALSE]
Digits(value) == [t |-> "digits", s |-> "", n |-> value, overflow |-> FALSE]
\* a run of more than 308 digits
LongDigits == [t |-> "digits", s |-> "", n |-> 0, overflow |-> TRUE]

NoRangeHeader == [present |-> FALSE, tokens |-> <<>>]
RangeHeader(tokens) == [present |-> TRUE, tokens |-> tokens]

\* (\d*) at the head of the tokens: the digit run, or the empty string
DigitRun(tokens) ==
    IF tokens # <<>> /\ Head(tokens).t = "digits" THEN <<Head(tokens)>> ELSE <<>>

\* /^bytes=(\d*)-(\d*)$/.exec(rangeHeader)
RangeMatches(tokens) ==
    LET hasPrefix == tokens # <<>> /\ Head(tokens) = Lit("bytes=")
        afterPrefix == IF hasPrefix THEN Tail(tokens) ELSE <<>>
        startString == DigitRun(afterPrefix)
        afterStart == SubSeq(afterPrefix, Len(startString) + 1, Len(afterPrefix))
        hasDash == afterStart # <<>> /\ Head(afterStart) = Lit("-")
        afterDash == IF hasDash THEN Tail(afterStart) ELSE <<>>
        endString == DigitRun(afterDash)
        afterEnd == SubSeq(afterDash, Len(endString) + 1, Len(afterDash))
    IN  [matched |-> hasPrefix /\ hasDash /\ afterEnd = <<>>,
         startString |-> startString,
         endString |-> endString]

\* Number(text) of a captured group: 0 for the empty string, Infinity for a
\* run of digits beyond the range of a double
NumberOf(digits) ==
    IF digits = <<>> THEN [finite |-> TRUE, n |-> 0]
    ELSE IF Head(digits).overflow THEN [finite |-> FALSE, n |-> 0]
    ELSE [finite |-> TRUE, n |-> Head(digits).n]

Min2(x, y) == IF x <= y THEN x ELSE y
Max2(x, y) == IF x >= y THEN x ELSE y

Rejected == [ok |-> FALSE, start |-> 0, end |-> 0]
ByteRange(start, end) == [ok |-> TRUE, start |-> start, end |-> end]

\* the range resolution without the clamp of the end
ResolveRangeUnclamped(tokens, size) ==
    LET matches == RangeMatches(tokens)
        startString == matches.startString
        endString == matches.endString
    IN  IF ~matches.matched THEN Rejected
        ELSE IF startString = <<>> /\ endString # <<>>
        THEN LET suffixLength == NumberOf(endString)
             IN  IF ~suffixLength.finite \/ suffixLength.n <= 0 THEN Rejected
                 ELSE IF Max2(0, size - suffixLength.n) >= size THEN Rejected
                 ELSE ByteRange(Max2(0, size - suffixLength.n), size - 1)
        ELSE LET start == NumberOf(startString)
                 end == IF endString # <<>> THEN NumberOf(endString)
                        ELSE [finite |-> TRUE, n |-> size - 1]
             IN  IF ~start.finite \/ start.n < 0 THEN Rejected
                 ELSE IF ~end.finite \/ end.n < start.n THEN Rejected
                 ELSE IF start.n >= size THEN Rejected
                 ELSE ByteRange(start.n, end.n)

\* lines 263-314: the byte interval of a Range header on a file of the size,
\* or the rejection that is answered with 416
ResolveRange(tokens, size) ==
    LET matches == RangeMatches(tokens)
        startString == matches.startString
        endString == matches.endString
    IN  IF ~matches.matched THEN Rejected
        ELSE IF startString = <<>> /\ endString # <<>>
        THEN LET suffixLength == NumberOf(endString)
             IN  IF ~suffixLength.finite \/ suffixLength.n <= 0 THEN Rejected
                 ELSE IF Max2(0, size - suffixLength.n) >= size THEN Rejected
                 ELSE ByteRange(Max2(0, size - suffixLength.n), size - 1)
        ELSE LET start == NumberOf(startString)
                 end == IF endString # <<>> THEN NumberOf(endString)
                        ELSE [finite |-> TRUE, n |-> size - 1]
             IN  IF ~start.finite \/ start.n < 0 THEN Rejected
                 ELSE IF ~end.finite \/ end.n < start.n THEN Rejected
                 ELSE IF start.n >= size THEN Rejected
                 ELSE ByteRange(start.n, Min2(end.n, size - 1))

\* what fs.promises.stat finds at a path
Absent == [kind |-> "absent", size |-> 0]
Directory == [kind |-> "directory", size |-> 0]
File(size) == [kind |-> "file", size |-> size]

\* the response of an answer sent at once: res.status(code).send(...) and
\* res.sendStatus(code)
Answered(response, code) ==
    [response EXCEPT !.phase = "ended", !.statusCode = code,
                     !.statusLines = Append(@, code)]

\* the handler of app.get(/^\/stream\/mp4\/(.+)$/) up to stream.pipe(res)
StreamMp4(path, rangeHeader, entry) ==
    LET requestedPath == Trim(path)
        request == [NoRequest EXCEPT !.requestedPath = path,
                                     !.rangeHeader = rangeHeader]
        stated == [request EXCEPT !.statted = <<absolutePath(requestedPath)>>,
                                  !.size = entry.size]
        range == ResolveRange(rangeHeader.tokens, entry.size)
        unsatisfiable ==
            [form |-> "star", start |-> 0, end |-> 0, size |-> entry.size]
    IN  IF requestedPath = <<>> THEN Answered(request, 404)
        ELSE IF PathRejected(requestedPath) THEN Answered(request, 400)
        ELSE IF entry.kind # "file" THEN Answered(stated, 404)
        ELSE IF ~rangeHeader.present \/ rangeHeader.tokens = <<>>
        THEN [stated EXCEPT
                 !.phase = "piping",
                 !.contentLength = entry.size,
                 !.opened = <<[path |-> absolutePath(requestedPath),
                               whole |-> TRUE,
                               start |-> 0, end |-> entry.size - 1]>>]
        ELSE IF ~range.ok
        THEN Answered([stated EXCEPT !.contentRange = unsatisfiable], 416)
        ELSE [stated EXCEPT
                 !.phase = "piping",
                 !.statusCode = 206,
                 !.contentRange = [form |-> "interval", start |-> range.start,
                                   end |-> range.end, size |-> entry.size],
                 !.contentLength = range.end - range.start + 1,
                 !.opened = <<[path |-> absolutePath(requestedPath),
                               whole |-> FALSE,
                               start |-> range.start, end |-> range.end]>>]

\* res.headersSent
HeadersSent(response) == response.statusLines # <<>>

\* an error handler that answers 500 whatever has been sent
OnStreamErrorAlwaysAnswering(response) == Answered(response, 500)

\* stream.on('error'), the same handler for the full and the ranged response
OnStreamError(response) ==
    IF ~HeadersSent(response)
    THEN Answered(response, 500)
    ELSE [response EXCEPT !.phase = "ended", !.destroyed = TRUE]

\* sizes of the files on disk, in bytes
Sizes == {0, 1, 1000}
\* the numbers written in Range headers
RangeNumbers == {0, 1, 50, 99, 100, 199, 900, 999, 1000, 2000}

RangeFields == {<<>>, <<LongDigits>>} \cup {<<Digits(n)>> : n \in RangeNumbers}

RangeHeaders ==
    {NoRangeHeader, RangeHeader(<<>>),
     RangeHeader(<<Lit("notbytes="), Lit("x")>>),
     RangeHeader(<<Lit("bytes="), Lit("x"), Lit("-")>>),
     RangeHeader(<<Lit("bytes="), Digits(0), Lit("-"), Digits(99), Lit(","),
                   Digits(100), Lit("-"), Digits(199)>>),
     RangeHeader(<<Lit("bytes="), Digits(100)>>)}
    \cup {RangeHeader(<<Lit("bytes=")>> \o s \o <<Lit("-")>> \o e) :
            s \in RangeFields, e \in RangeFields}

\* req.params[0] of the requests: "c/v", "v", "c/../v", "../../e/p", "/e/p",
\* "..\..\e", "c/..\v", "x..y", ".", "/", " ", " v ", "c//v/"
RequestedPaths ==
    {<<"c", "/", "v">>,
     <<"v">>,
     <<"c", "/", ".", ".", "/", "v">>,
     <<".", ".", "/", ".", ".", "/", "e", "/", "p">>,
     <<"/", "e", "/", "p">>,
     <<".", ".", "\\", ".", ".", "\\", "e">>,
     <<"c", "/", ".", ".", "\\", "v">>,
     <<"x", ".", ".", "y">>,
     <<".">>,
     <<"/">>,
     <<" ">>,
     <<" ", "v", " ">>,
     <<"c", "/", "/", "v", "/">>}

\* what is on disk at the resolved path: the asset root is a directory
DiskEntries(path) ==
    IF absolutePath(Trim(path)) = mp4Dir
    THEN {Directory}
    ELSE {Absent, Directory} \cup {File(size) : size \in Sizes}

\* a request arrives and is handled
StreamRequest ==
    /\ http.phase = "idle"
    /\ \E path \in RequestedPaths, rangeHeader \in RangeHeaders :
         \E entry \in DiskEntries(path) :
            http' = StreamMp4(path, rangeHeader, entry)
    /\ UNCHANGED <<state, clients, role, readyState, delivered, clock, last, running,
                   uplink, browser>>

\* stream.pipe(res) writes the first chunk: the head of the response goes out
StreamData ==
    /\ http.phase = "piping"
    /\ ~HeadersSent(http)
    /\ http.contentLength > 0
    /\ http' = [http EXCEPT !.statusLines = Append(@, http.statusCode)]
    /\ UNCHANGED <<state, clients, role, readyState, delivered, clock, last, running,
                   uplink, browser>>

\* the read stream ends and pipe calls res.end()
StreamEnd ==
    /\ http.phase = "piping"
    /\ HeadersSent(http) \/ http.contentLength = 0
    /\ http' = [http EXCEPT
                   !.phase = "ended",
                   !.statusLines = IF HeadersSent(http) THEN @
                                   ELSE Append(@, http.statusCode)]
    /\ UNCHANGED <<state, clients, role, readyState, delivered, clock, last, running,
                   uplink, browser>>

\* the read stream emits 'error', once: opening or reading the file failed
StreamError ==
    /\ http.phase = "piping"
    /\ http' = OnStreamError([http EXCEPT !.errored = TRUE])
    /\ UNCHANGED <<state, clients, role, readyState, delivered, clock, last, running,
                   uplink, browser>>

\* the response is complete or its socket is gone: the next request is awaited
StreamFinished ==
    /\ http.phase = "ended"
    /\ http' = NoRequest
    /\ UNCHANGED <<state, clients, role, readyState, delivered, clock, last, running,
                   uplink, browser>>

NextStream ==
    \/ StreamRequest
    \/ StreamData
    \/ StreamEnd
    \/ StreamError
    \/ StreamFinished

SpecStream == Init /\ [][NextStream]_vars


(***************************************************************************)
(* Clients: the frames a connection was handed reach its hook in order     *)
(***************************************************************************)
\* a handler that leaves the frame where it is
ReceivedNever(hook, message) == hook

\* the switch of ws.onmessage: the hook after the frame
Received(hook, message) ==
    LET taken == [hook EXCEPT !.cursor = @ + 1]
    IN  CASE message.type = Str("init") ->
               [taken EXCEPT
                  !.fallbackLayers = message.payload.state.fallbackLayers,
                  !.controlSettings = message.payload.state.controlSettings,
                  !.viewerStatus = message.payload.state.viewerStatus,
                  !.mixState = IF Truthy(message.payload.state.mixState)
                               THEN normaliseMixState(message.payload.state.mixState)
                               ELSE @]
          [] message.type = Str("fallback-layers") ->
               [taken EXCEPT !.fallbackLayers = message.payload]
          [] message.type = Str("control-settings") ->
               [taken EXCEPT !.controlSettings = message.payload]
          [] message.type = Str("mix-state") ->
               [taken EXCEPT !.mixState = normaliseMixState(message.payload)]
          [] message.type = Str("viewer-status") ->
               [taken EXCEPT !.viewerStatus = message.payload]
          [] OTHER -> taken

\* ws.onmessage of connection c's client: the next frame arrives
OnMessage(c) ==
    /\ browser[c].cursor < Len(delivered[c])
    /\ browser' = [browser EXCEPT
                      ![c] = Received(@, delivered[c][browser[c].cursor + 1].frame)]
    /\ UNCHANGED <<state, clients, role, readyState, delivered, clock, last, running,
                   http, uplink>>

MixViewDeckInputs ==
    {Message("update-mix-deck", MixDeckPayload(Str("a"), d)) :
        d \in {DeckData(Str("video"), Clip, Num(5), Bool(TRUE), Undef),
               DeckData(Undef, Undef, Str("abc"), Undef, Undef)}}
    \cup {Message("update-mix-deck",
                  MixDeckPayload(k, DeckData(Str("video"), Clip, Undef, Undef, Undef))) :
            k \in {Str("b"), Str("constructor")}}

MixViewCrossfaderInputs ==
    {Message("update-crossfader", CrossfaderPayload(Str("AB"), Num(15))),
     Message("update-crossfader", CrossfaderPayload(Str("cd"), Num(2))),
     Message("update-crossfader", CrossfaderPayload(Str("ac"), Str("abc")))}

NextMixView ==
    \/ \E c \in ConnIds : Connection(c)
    \/ \E c \in ConnIds : SocketClosing(c)
    \/ \E c \in ConnIds : Close(c)
    \/ \E c \in ConnIds : \E m \in MixViewDeckInputs : UpdateMixDeck(c, m)
    \/ \E c \in ConnIds : \E m \in MixViewCrossfaderInputs : UpdateCrossfader(c, m)
    \/ \E c \in ConnIds : OnMessage(c)

SpecMixView == Init /\ [][NextMixView]_vars


(***************************************************************************)
(* Clients that send: a page applies its own update to its view when it    *)
(* sends it, and the server handles the frames of a connection in the      *)
(* order they were sent                                                    *)
(***************************************************************************)
\* the page's own update applied to its view at send time (the pages that do
\* this are not part of the sources; the behaviour is the one the design
\* rationale gives: merge for settings and status, replace for layers)
AppliedLocally(hook, message) ==
    CASE TypeOf(message) = Str("update-control-settings") ->
           [hook EXCEPT !.controlSettings = SpreadParsed(@, PayloadOf(message))]
      [] TypeOf(message) = Str("viewer-status") ->
           [hook EXCEPT !.viewerStatus = SpreadParsed(@, PayloadOf(message))]
      [] TypeOf(message) = Str("update-fallback-layers") ->
           [hook EXCEPT !.fallbackLayers = PayloadOf(message)]
      [] OTHER -> hook

\* send(message) of the hook: the frame goes out if the socket is open. A
\* client has at most one frame on the way.
Send(c, message) ==
    /\ running
    /\ c \in clients
    /\ readyState[c] = "OPEN"
    /\ uplink[c] = <<>>
    /\ clock + Cardinality({d \in ConnIds : uplink[d] # <<>>}) < MaxFrames
    /\ uplink' = [uplink EXCEPT ![c] = Append(@, message)]
    /\ browser' = [browser EXCEPT ![c] = AppliedLocally(@, message)]
    /\ UNCHANGED <<state, clients, role, readyState, delivered, clock, last, running, http>>

\* what connection c's page sends: each connection its own values
EchoInputs(c) ==
    IF c = "c1"
    THEN {Message("update-control-settings", Settings(Undef, Undef, Str("neon"))),
          Message("viewer-status", Status(Bool(TRUE), Undef, Undef, Undef)),
          Message("update-fallback-layers", Arr(<<Layer("plasma.glsl")>>))}
    ELSE {Message("update-control-settings", Settings(Str("openai"), Undef, Undef)),
          Message("viewer-status", Status(Undef, Undef, Str("boom"), Undef)),
          Message("update-fallback-layers", Arr(<<Layer("waves.glsl")>>))}

NextEcho ==
    \/ \E c \in ConnIds : Connection(c)
    \/ \E c \in ConnIds : \E m \in EchoInputs(c) : Send(c, m)
    \/ \E c \in ConnIds : uplink[c] # <<>> /\ UpdateControlSettings(c, Head(uplink[c]))
    \/ \E c \in ConnIds : uplink[c] # <<>> /\ ViewerStatus(c, Head(uplink[c]))
    \/ \E c \in ConnIds : uplink[c] # <<>> /\ UpdateFallbackLayers(c, Head(uplink[c]))
    \/ \E c \in ConnIds : OnMessage(c)

SpecEcho == Init /\ [][NextEcho]_vars


(***************************************************************************)
(* Delivery: the frames handed to an open socket reach the client, whose    *)
(* event loop runs onmessage for every frame that has arrived               *)
(***************************************************************************)
DeliveryInputs ==
    {Message("update-control-settings", Settings(Undef, Undef, Str("neon"))),
     Message("update-crossfader", CrossfaderPayload(Str("AB"), Num(15)))}

\* c1 sends the update that excludes its sender, c2 the one that goes to all;
\* a socket may leave OPEN at any time
NextDelivery ==
    \/ \E c \in ConnIds : Connection(c)
    \/ \E c \in ConnIds : SocketClosing(c)
    \/ \E m \in DeliveryInputs : UpdateControlSettings("c1", m)
    \/ \E m \in DeliveryInputs : UpdateCrossfader("c2", m)
    \/ \E c \in ConnIds : OnMessage(c)

\* fair, FIFO, loss-free delivery: a frame that waits at a client is taken
FairDelivery == \A c \in ConnIds : WF_vars(OnMessage(c))

SpecDelivery == Init /\ [][NextDelivery]_vars /\ FairDelivery


\* ---------------------------------------------------------------------
\* The socket of the useRealtime hook

\* send(message) of the hook if it looked at no readyState:
\* every frame is written at once, whatever the socket's readyState
sendWhateverTheState(hook, message) ==
    [hook EXCEPT !.calls = @ + 1, !.lastCall = message, !.sent = Append(@, message)]

\* send(message) of the hook: ws.send only if wsRef.current is set and its
\* readyState is OPEN, nothing otherwise
send(hook, message) ==
    IF hook.wsRef /\ hook.socket = "OPEN"
    THEN [hook EXCEPT !.calls = @ + 1, !.lastCall = message, !.sent = Append(@, message)]
    ELSE [hook EXCEPT !.calls = @ + 1, !.lastCall = message]

\* the roles a page hands to useRealtime
HookRoles == {"viewer", "controller"}

\* what the pages send through the hook
LifecycleInputs ==
    {Message("viewer-status", Status(Bool(TRUE), Undef, Undef, Undef)),
     Message("code-progress", Str("abc"))}

\* the effect of the hook runs: new WebSocket(wsUrl), wsRef.current = ws,
\* setConnectionState('connecting')
EffectRuns(c, r) ==
    /\ browser[c].socket = "NONE"
    /\ browser' = [browser EXCEPT ![c] = [@ EXCEPT !.socket = "CONNECTING",
                                                    !.wsRef = TRUE,
                                                    !.role = Str(r),
                                                    !.connectionState = "connecting"]]
    /\ UNCHANGED <<state, clients, role, readyState, delivered, clock, last, running,
                   http, uplink>>

\* ws.onopen: setConnectionState('open') and the register frame
OnOpen(c) ==
    /\ browser[c].socket = "CONNECTING"
    /\ browser' = [browser EXCEPT
                      ![c] = [@ EXCEPT !.socket = "OPEN",
                                       !.connectionState = "open",
                                       !.sent = Append(@, RegisterMessage(browser[c].role))]]
    /\ UNCHANGED <<state, clients, role, readyState, delivered, clock, last, running,
                   http, uplink>>

\* ws.onclose: the connection could not be made, was lost, or the closing the
\* cleanup began is over; setConnectionState('closed')
OnClose(c) ==
    /\ browser[c].socket \in {"CONNECTING", "OPEN", "CLOSING"}
    /\ browser' = [browser EXCEPT ![c] = [@ EXCEPT !.socket = "CLOSED",
                                                    !.connectionState = "closed"]]
    /\ UNCHANGED <<state, clients, role, readyState, delivered, clock, last, running,
                   http, uplink>>

\* the cleanup of the effect: ws.close(), wsRef.current = null,
\* setConnectionState('closed')
EffectCleanup(c) ==
    /\ browser[c].socket # "NONE"
    /\ browser[c].wsRef
    /\ browser' = [browser EXCEPT
                      ![c] = [@ EXCEPT !.socket = IF @ \in {"CONNECTING", "OPEN"}
                                                  THEN "CLOSING" ELSE @,
                                       !.wsRef = FALSE,
                                       !.connectionState = "closed"]]
    /\ UNCHANGED <<state, clients, role, readyState, delivered, clock, last, running,
                   http, uplink>>

\* a page calls send(message) of the hook, at any moment after the effect
SendCall(c, message) ==
    /\ browser[c].socket # "NONE"
    /\ browser[c].calls < MaxFrames
    /\ browser' = [browser EXCEPT ![c] = send(@, message)]
    /\ UNCHANGED <<state, clients, role, readyState, delivered, clock, last, running,
                   http, uplink>>

NextLifecycle ==
    \/ \E c \in ConnIds : \E r \in HookRoles : EffectRuns(c, r)
    \/ \E c \in ConnIds : OnOpen(c)
    \/ \E c \in ConnIds : OnClose(c)
    \/ \E c \in ConnIds : EffectCleanup(c)
    \/ \E c \in ConnIds : \E m \in LifecycleInputs : SendCall(c, m)

SpecLifecycle == Init /\ [][NextLifecycle]_vars


\* ---------------------------------------------------------------------
\* The viewer page: compiling the generated shaders

\* the error the page shows when it gives up
CompilationFailed == "Shader compilation failed after 5 attempts."

\* the subscribe callback after updateShader has failed, retrying whatever
\* the count
OnCompileFailureRetryingForEver(page) ==
    [page EXCEPT !.compiling = @ - 1, !.success = "false",
                 !.retryCount = @ + 1,
                 !.waiting = @ + 1, !.regenerations = @ + 1]

\* the subscribe callback after updateShader has failed: one more failure,
\* then either the one second before generateGLSL or the error, isGenerating
\* false and the rollback if a generator is there
OnCompileFailure(page) ==
    IF page.retryCount + 1 < MAX_RETRIES /\ page.generator
    THEN [page EXCEPT !.compiling = @ - 1, !.success = "false",
                      !.retryCount = @ + 1,
                      !.waiting = @ + 1, !.regenerations = @ + 1]
    ELSE [page EXCEPT !.compiling = @ - 1, !.success = "false",
                      !.retryCount = @ + 1,
                      !.error = CompilationFailed,
                      !.isGenerating = FALSE,
                      !.rollbacks = IF page.generator THEN @ + 1 ELSE @]

\* the subscribe callback after updateShader has succeeded
OnCompileSuccess(page) ==
    [page EXCEPT !.compiling = @ - 1, !.success = "true",
                 !.retryCount = 0, !.regenerations = 0]

PageStep(c, page) ==
    /\ browser' = [browser EXCEPT ![c] = [@ EXCEPT !.page = page]]
    /\ UNCHANGED <<state, clients, role, readyState, delivered, clock, last, running,
                   http, uplink>>

\* startVisualization with an API key: attachGenerator puts a new generator
\* in place of the one there was, then generateGLSL
StartVisualization(c) ==
    PageStep(c, [browser[c].page EXCEPT !.generator = TRUE, !.requested = 1,
                                        !.isRunning = TRUE, !.error = ""])

\* stopVisualization: the generator is destroyed and hands over nothing more
StopVisualization(c) ==
    PageStep(c, [browser[c].page EXCEPT !.generator = FALSE, !.requested = 0,
                                        !.isRunning = FALSE, !.isGenerating = FALSE,
                                        !.error = ""])

\* regenerateShader, asked for by the controller
RegenerateShader(c) ==
    /\ browser[c].page.generator
    /\ ~browser[c].page.isGenerating
    /\ browser[c].page.compiles + browser[c].page.requested < MaxCompiles
    /\ PageStep(c, [browser[c].page EXCEPT !.requested = @ + 1])

\* the subscribeProgress callback while the generator writes a shader
OnProgress(c, isComplete) ==
    /\ browser[c].page.requested > 0
    /\ PageStep(c, [browser[c].page EXCEPT !.isGenerating = ~isComplete])

\* the generator hands a shader to the subscribe callback, which awaits
\* updateShader
OnShader(c) ==
    /\ browser[c].page.requested > 0
    /\ browser[c].page.compiles < MaxCompiles
    /\ PageStep(c, [browser[c].page EXCEPT !.requested = @ - 1, !.compiling = @ + 1,
                                           !.compiles = @ + 1])

\* updateShader resolves, with either result
OnCompiled(c, success) ==
    /\ browser[c].page.compiling > 0
    /\ PageStep(c, IF success THEN OnCompileSuccess(browser[c].page)
                              ELSE OnCompileFailure(browser[c].page))

\* the one second is over: generateGLSL of the generator, a TypeError if
\* there is none any more
OnRetryTimeout(c) ==
    /\ browser[c].page.waiting > 0
    /\ PageStep(c, [browser[c].page EXCEPT
                        !.waiting = @ - 1,
                        !.requested = IF browser[c].page.generator THEN @ + 1 ELSE @])

\* the connection of the viewer page
ViewerConn == "c1"

NextRetry ==
    \/ StartVisualization(ViewerConn)
    \/ StopVisualization(ViewerConn)
    \/ RegenerateShader(ViewerConn)
    \/ \E isComplete \in BOOLEAN : OnProgress(ViewerConn, isComplete)
    \/ OnShader(ViewerConn)
    \/ \E success \in BOOLEAN : OnCompiled(ViewerConn, success)
    \/ OnRetryTimeout(ViewerConn)

SpecRetry == Init /\ [][NextRetry]_vars


(***************************************************************************)
(* Properties                                                              *)
(***************************************************************************)
\* the step handles one inbound frame
MessageStep == last'.op = "message" /\ clock' = clock + 1
\* the frame handed to connection c last
LastDelivered(c) == delivered[c][Len(delivered[c])]
ValidDeckKeys == {Str(key) : key \in DeckKeys}
MixTypes == {Str("update-mix-deck"), Str("update-crossfader"), Str("updateCrossfader")}
IsCrossfaderMessage(message) ==
    TypeOf(message) \in {Str("update-crossfader"), Str("updateCrossfader")}

\* the crossfader target is one of main, ab, ac, bd, cd after trim and lower-case
RecognizedTarget(message) ==
    LET target == Field(PayloadOf(message), "target")
    IN  IsString(target) /\ TrimLower(target.s) \in CrossfaderTargets

\* the dispatch table accepts the update
TableAccepts(message) ==
    CASE TypeOf(message) = Str("update-mix-deck") ->
            Field(PayloadOf(message), "deck") \in ValidDeckKeys
      [] IsCrossfaderMessage(message) -> RecognizedTarget(message)
      [] TypeOf(message) = Str("deck-media-state") ->
            /\ Field(PayloadOf(message), "deck") \in ValidDeckKeys
            /\ IsObject(Field(PayloadOf(message), "state"))
      [] TypeOf(message) \in {Str("update-fallback-layers"), Str("update-control-settings"),
                              Str("viewer-status")} -> TRUE
      [] OTHER -> FALSE

\* the type of the frame an accepted update produces
ResultingType(message) ==
    CASE TypeOf(message) \in MixTypes -> Str("mix-state")
      [] TypeOf(message) = Str("update-fallback-layers") -> Str("fallback-layers")
      [] TypeOf(message) = Str("update-control-settings") -> Str("control-settings")
      [] OTHER -> TypeOf(message)

\* C1: an accepted update-mix-deck or update-crossfader hands one mix-state
\* frame to every open registered connection, the sender included; an accepted
\* update-fallback-layers, update-control-settings, viewer-status or
\* deck-media-state hands its frame to every open registered connection but
\* the sender; no other connection is handed anything.
C1_BroadcastExclusion ==
    [][(MessageStep /\ TableAccepts(last'.message)) =>
        \A c \in ConnIds :
            IF /\ c \in clients
               /\ readyState[c] = "OPEN"
               /\ (TypeOf(last'.message) \in MixTypes \/ c # last'.conn)
            THEN /\ Len(delivered'[c]) = Len(delivered[c]) + 1
                 /\ SubSeq(delivered'[c], 1, Len(delivered[c])) = delivered[c]
                 /\ delivered'[c][Len(delivered'[c])].frame.type = ResultingType(last'.message)
            ELSE delivered'[c] = delivered[c]]_vars

\* C1 witness: a sender-excluded update of one connection has reached the
\* other and not the sender, which holds an earlier mix-state frame.
C1_Witness ==
    \E c \in ConnIds, d \in ConnIds :
        /\ c # d
        /\ last.op = "message" /\ last.conn = c
        /\ TypeOf(last.message) = Str("viewer-status")
        /\ delivered[d] # <<>> /\ LastDelivered(d).seq = clock
        /\ LastDelivered(d).frame.type = Str("viewer-status")
        /\ delivered[c] # <<>> /\ LastDelivered(c).seq = clock - 1
        /\ LastDelivered(c).frame.type = Str("mix-state")

\* C2: each of the decks a, b, c, d has a type among null, shader, video and
\* generative, a null assetId whenever its type is generative, and a boolean
\* enabled.
C2_DeckTypeInvariant ==
    \A key \in DeckKeys :
        LET deck == state.mixState.decks[key]
        IN  /\ deck.type \in {Null, Str("shader"), Str("video"), Str("generative")}
            /\ (deck.type = Str("generative") => deck.assetId = Null)
            /\ deck.enabled \in {Bool(TRUE), Bool(FALSE)}

\* C2 witness: a payload naming type generative together with an assetId has
\* been applied to deck a.
C2_Witness ==
    /\ last.op = "message"
    /\ Field(PayloadOf(last.message), "deck") = Str("a")
    /\ DataOf(last.message).type = Str("generative")
    /\ DataOf(last.message).assetId = Clip
    /\ state.mixState.decks["a"].type = Str("generative")

\* C3 as stated: a deck whose assetId is null or whose type is null has both
\* null.
C3_BothNullAsStated ==
    \A key \in DOMAIN state.mixState.decks :
        LET deck == state.mixState.decks[key]
        IN  (deck.assetId = Null \/ deck.type = Null) =>
                (deck.assetId = Null /\ deck.type = Null)

\* C3 amended: a deck whose type is not generative and whose assetId is null
\* or whose type is null has both null (a generative deck keeps its type with
\* a null assetId).
C3_BothNullUnlessGenerative ==
    \A key \in DOMAIN state.mixState.decks :
        LET deck == state.mixState.decks[key]
        IN  (deck.type # Str("generative") /\ (deck.assetId = Null \/ deck.type = Null)) =>
                (deck.assetId = Null /\ deck.type = Null)

\* C3 witness: a payload naming type video with an empty assetId has been
\* applied to deck a, which has neither type nor assetId.
C3_Witness ==
    /\ last.op = "message"
    /\ Field(PayloadOf(last.message), "deck") = Str("a")
    /\ DataOf(last.message).type = Str("video")
    /\ DataOf(last.message).assetId = Str("")
    /\ state.mixState.decks["a"].type = Null
    /\ state.mixState.decks["a"].assetId = Null


\* the value a key has after { ...old, ...data }
Merged(old, data, f) == IF data[f] # Undef THEN data[f] ELSE old[f]

DocumentedDeckData == DeckData(Str("video"), Clip, Undef, Bool(TRUE), Undef)
DocumentedDeck ==
    [type |-> Str("video"), assetId |-> Clip, opacity |-> Num(10), enabled |-> Bool(TRUE),
     label |-> Undef]

\* C4: an update-mix-deck naming deck a, b, c or d merges the data onto the
\* deck before the invariants are applied: a key the invariants do not touch
\* takes the payload value if named and keeps its value if not; opacity and
\* enabled keep their value if not named and take the payload's (a number of
\* [0,1], a boolean) if named; a named shader or video type with a non-empty
\* assetId, each named or kept, is the deck's source.  From the default deck,
\* {type:'video', assetId:'cat/clip.mp4', enabled:true} yields exactly
\* {type:'video', assetId:'cat/clip.mp4', opacity:1, enabled:true}, and the
\* mix-state frame handed to every open connection carries that deck.
C4_MergeThenNormalise ==
    [][(/\ MessageStep
        /\ TypeOf(last'.message) = Str("update-mix-deck")
        /\ Field(PayloadOf(last'.message), "deck") \in ValidDeckKeys) =>
        LET key == Field(PayloadOf(last'.message), "deck").s
            data == DataOf(last'.message)
            old == state.mixState.decks[key]
            new == state'.mixState.decks[key]
            type == Merged(old, data, "type")
            assetId == Merged(old, data, "assetId")
        IN  /\ new.label = Merged(old, data, "label")
            /\ (data.opacity = Undef => new.opacity = old.opacity)
            /\ (IsNumber(data.opacity) /\ data.opacity.n \in 0..10 =>
                    new.opacity = data.opacity)
            /\ (data.enabled = Undef => new.enabled = old.enabled)
            /\ (IsBoolean(data.enabled) => new.enabled = data.enabled)
            /\ (type \in {Str("shader"), Str("video")} /\ IsString(assetId) /\ assetId.s # "" =>
                    new.type = type /\ new.assetId = assetId)
            /\ (old = defaultMixDeck /\ data = DocumentedDeckData =>
                    /\ new = DocumentedDeck
                    /\ \A c \in ConnIds :
                          (c \in clients /\ readyState[c] = "OPEN") =>
                              /\ Len(delivered'[c]) = Len(delivered[c]) + 1
                              /\ delivered'[c][Len(delivered'[c])].frame.type = Str("mix-state")
                              /\ delivered'[c][Len(delivered'[c])].frame.payload.decks[key]
                                    = DocumentedDeck)]_vars

\* C4 witness: the documented update has been applied to deck a, and the
\* sender holds the mix-state frame carrying the documented deck.
C4_Witness ==
    /\ last.op = "message"
    /\ Field(PayloadOf(last.message), "deck") = Str("a")
    /\ DataOf(last.message) = DocumentedDeckData
    /\ state.mixState.decks["a"] = DocumentedDeck
    /\ delivered[last.conn] # <<>>
    /\ LastDelivered(last.conn).seq = clock
    /\ LastDelivered(last.conn).frame.type = Str("mix-state")
    /\ LastDelivered(last.conn).frame.payload.decks["a"] = DocumentedDeck

\* C5: each deck's opacity is a number with 0 <= opacity <= 1.
C5_OpacityInUnitRange ==
    \A key \in DeckKeys :
        /\ IsNumber(state.mixState.decks[key].opacity)
        /\ state.mixState.decks[key].opacity.n \in 0..10

CrossfaderFields == {"crossfaderAB", "crossfaderAC", "crossfaderBD", "crossfaderCD"}

\* C6: after an update-crossfader or updateCrossfader with a recognized
\* target, the targeted scalar is the payload value clamped to [0,1]; all
\* four crossfader scalars are numbers of [0,1] in every reachable state.
C6_CrossfaderInUnitRange ==
    \A f \in CrossfaderFields :
        /\ IsNumber(state.mixState[f])
        /\ state.mixState[f].n \in 0..10

\* C7: a crossfader update whose target is not recognized, or whose payload
\* is absent, changes nothing of the Session State and hands no frame to any
\* connection.
C7_UnknownTargetRejected ==
    [][(/\ MessageStep
        /\ IsCrossfaderMessage(last'.message)
        /\ (Nullish(PayloadOf(last'.message)) \/ ~RecognizedTarget(last'.message))) =>
        (state' = state /\ delivered' = delivered)]_vars

\* C7 witness: an update naming the inherited property 'constructor' has been
\* handled while the sender was open.
C7_Witness ==
    /\ last.op = "message"
    /\ IsCrossfaderMessage(last.message)
    /\ Field(PayloadOf(last.message), "target") = Str("constructor")
    /\ readyState[last.conn] = "OPEN"
    /\ state.mixState.crossfaderAB = Num(10)


\* C8: an update-mix-deck or deck-media-state whose deck key is not a, b, c
\* or d changes nothing of the Session State, hands no frame to any
\* connection, and leaves the sender open and registered.
C8_UnknownDeckSkipped ==
    [][(/\ MessageStep
        /\ TypeOf(last'.message) \in {Str("update-mix-deck"), Str("deck-media-state")}
        /\ Field(PayloadOf(last'.message), "deck") \notin ValidDeckKeys) =>
        /\ state' = state
        /\ delivered' = delivered
        /\ clients' = clients
        /\ readyState' = readyState]_vars

\* C9: the frames a connection is handed are in the order the server produced
\* them: of two frames it holds, the one of the earlier handler comes first.
C9_BroadcastOrdering ==
    \A c \in ConnIds :
        \A i \in DOMAIN delivered[c], j \in DOMAIN delivered[c] :
            i < j => delivered[c][i].seq < delivered[c][j].seq

\* C9 witness: both connections hold their init frame and then the frames of
\* the first and of the second handler.
C9_Witness ==
    \A c \in ConnIds :
        /\ Len(delivered[c]) = 3
        /\ delivered[c][2].seq = 1
        /\ delivered[c][3].seq = 2

StateFrameTypes ==
    {Str("mix-state"), Str("fallback-layers"), Str("control-settings"),
     Str("viewer-status"), Str("deck-media-state")}

\* the server's value of the component a state frame reports
ComponentOf(frame) ==
    CASE frame.type = Str("mix-state") -> state.mixState
      [] frame.type = Str("fallback-layers") -> state.fallbackLayers
      [] frame.type = Str("control-settings") -> state.controlSettings
      [] frame.type = Str("viewer-status") -> state.viewerStatus
      [] frame.type = Str("deck-media-state") ->
            [deck |-> frame.payload.deck,
             state |-> state.deckMediaStates[ToPropertyKey(frame.payload.deck)]]

\* C10: the payload of every state frame of the latest handler equals the
\* server's value of that component (no mutation has happened since the one
\* that triggered it), and all recipients of one broadcast hold the same frame.
C10_FramePayloadIsState ==
    /\ \A c \in ConnIds : \A i \in DOMAIN delivered[c] :
          (delivered[c][i].seq = clock /\ delivered[c][i].frame.type \in StateFrameTypes) =>
              delivered[c][i].frame.payload = ComponentOf(delivered[c][i].frame)
    /\ \A c \in ConnIds, d \in ConnIds :
          \A i \in DOMAIN delivered[c], j \in DOMAIN delivered[d] :
              (/\ delivered[c][i].seq = delivered[d][j].seq
               /\ delivered[c][i].frame.type # Str("init")
               /\ delivered[d][j].frame.type # Str("init")) =>
                  delivered[c][i].frame = delivered[d][j].frame

\* the connections handed a frame by the step
GotFrame == {c \in ConnIds : delivered'[c] # delivered[c]}
\* the registered connections whose socket is open
OpenClients == {c \in clients : readyState[c] = "OPEN"}

\* C11: handling one inbound frame hands each connection at most one frame;
\* whenever it broadcasts, every registered open connection other than the
\* sender holds exactly one copy of the same frame, a connection that is
\* registered with a socket that is not open (or not registered) holds
\* nothing new, and the handler ends normally: the registry, the sockets and
\* the process are as before.
C11_BroadcastOncePerConnection ==
    [][MessageStep =>
        /\ \A c \in ConnIds :
              \/ delivered'[c] = delivered[c]
              \/ /\ Len(delivered'[c]) = Len(delivered[c]) + 1
                 /\ SubSeq(delivered'[c], 1, Len(delivered[c])) = delivered[c]
                 /\ delivered'[c][Len(delivered'[c])].seq = clock'
        /\ GotFrame \subseteq OpenClients
        /\ (GotFrame # {} \/ TableAccepts(last'.message)) =>
              (OpenClients \ {last'.conn}) \subseteq GotFrame
        /\ \A c \in GotFrame, d \in GotFrame :
              delivered'[c][Len(delivered'[c])].frame = delivered'[d][Len(delivered'[d])].frame
        /\ running' /\ clients' = clients /\ readyState' = readyState]_vars

\* C11 witness: a broadcast to everyone reached its open sender while the
\* other connection, registered with a closing socket, was handed nothing.
C11_Witness ==
    \E c \in ConnIds, d \in ConnIds :
        /\ c # d
        /\ last.op = "message" /\ last.conn = c
        /\ delivered[c] # <<>> /\ LastDelivered(c).seq = clock
        /\ LastDelivered(c).frame.type = Str("mix-state")
        /\ d \in clients /\ readyState[d] = "CLOSING"
        /\ delivered[d] # <<>> /\ LastDelivered(d).seq < clock

\* C12: accepting a connection adds it to the registry with role 'unknown'
\* and hands it one init frame, the first frame it holds, whose state payload
\* equals the Session State at that moment (which the acceptance leaves
\* unchanged); no other step hands anyone an init frame.
C12_InitFrameIsSnapshot ==
    [][/\ last'.op = "connection" =>
            LET c == last'.conn
            IN  /\ c \notin clients
                /\ clients' = clients \cup {c}
                /\ role'[c] = Str("unknown")
                /\ delivered[c] = <<>>
                /\ Len(delivered'[c]) = 1
                /\ delivered'[c][1].frame.type = Str("init")
                /\ delivered'[c][1].frame.payload.state = state
                /\ state' = state
                /\ \A d \in ConnIds \ {c} : delivered'[d] = delivered[d]
       /\ last'.op # "connection" =>
            \A c \in GotFrame : delivered'[c][Len(delivered'[c])].frame.type # Str("init")]_vars

\* C13: the close of a connection removes it, and only it, from the registry
\* (removing it once more changes nothing) and leaves the Session State and
\* every connection's frames as they are; a connection that has been removed
\* stays removed and is handed no frame by any later step.
C13_CloseUnregisters ==
    [][/\ last'.op = "close" =>
            LET c == last'.conn
            IN  /\ c \in clients
                /\ clients' = clients \ {c}
                /\ Unregister(clients', c) = clients'
                /\ state' = state
                /\ delivered' = delivered
                /\ running'
       /\ \A c \in ConnIds :
            (c \notin clients /\ readyState[c] = "CLOSED") =>
                (c \notin clients' /\ delivered'[c] = delivered[c])]_vars

\* C13 witness: one connection was closed and removed, and then a broadcast
\* to everyone reached the other, still registered, and not the removed one.
C13_Witness ==
    \E c \in ConnIds, d \in ConnIds :
        /\ c # d
        /\ readyState[c] = "CLOSED" /\ c \notin clients
        /\ last.op = "message" /\ last.conn = d /\ d \in clients
        /\ delivered[d] # <<>> /\ LastDelivered(d).seq = clock
        /\ LastDelivered(d).frame.type = Str("mix-state")
        /\ delivered[c] # <<>> /\ LastDelivered(c).seq < clock

\* the frame is malformed JSON, or parses to a value whose type is not a case
\* of the switch
Dropped(message) ==
    \/ message = MalformedJSON
    \/ message # Null /\ TypeOf(message) \notin HandledTypes

\* C14: a frame that is malformed JSON or whose type is not in the dispatch
\* table changes nothing of the Session State, hands no frame to anyone and
\* leaves the sender open, registered and the process running; a pass-through
\* frame the same connection sends next is relayed to the open others as usual.
C14_DroppedFrame ==
    [][/\ (MessageStep /\ Dropped(last'.message)) =>
            /\ state' = state
            /\ delivered' = delivered
            /\ clients' = clients
            /\ readyState' = readyState
            /\ role' = role
            /\ running'
       /\ (/\ MessageStep
           /\ last.op = "message" /\ Dropped(last.message)
           /\ last'.conn = last.conn
           /\ TypeOf(last'.message) \in PassThroughTypes) =>
            /\ (OpenClients \ {last'.conn}) \subseteq GotFrame
            /\ \A d \in GotFrame :
                  delivered'[d][Len(delivered'[d])].frame.type = TypeOf(last'.message)]_vars

\* C14 witness: both connections were accepted before any frame; the first
\* frame handed nothing to either, and the pass-through frame sent second is
\* held by the other connection right after its init frame.
C14_Witness ==
    \E c \in ConnIds, d \in ConnIds :
        /\ c # d
        /\ clock = 2
        /\ last.op = "message" /\ last.conn = c
        /\ TypeOf(last.message) = Str("stop-visualization")
        /\ readyState[c] = "OPEN" /\ c \in clients
        /\ Len(delivered[d]) = 2
        /\ delivered[d][1].seq = 0
        /\ delivered[d][2].seq = 2
        /\ delivered[d][2].frame.type = Str("stop-visualization")
        /\ Len(delivered[c]) = 1
        /\ delivered[c][1].seq = 0
        /\ state = InitialState

\* C15: whatever frames have been received (malformed JSON, JSON that is not
\* an object, an object without a type, an unknown type, a known type with
\* any payload), every message handler has completed without an uncaught
\* error: the server process is running.
C15_NoFrameTerminates == running

\* the message names a valid target or deck and lacks the field its type
\* requires: the crossfader value, the deck data, the media state
MissingField(message) ==
    \/ /\ IsCrossfaderMessage(message)
       /\ RecognizedTarget(message)
       /\ Field(PayloadOf(message), "value") = Undef
    \/ /\ TypeOf(message) = Str("update-mix-deck")
       /\ Field(PayloadOf(message), "deck") \in ValidDeckKeys
       /\ Field(PayloadOf(message), "data") = Undef
    \/ /\ TypeOf(message) = Str("deck-media-state")
       /\ Field(PayloadOf(message), "deck") \in ValidDeckKeys
       /\ Field(PayloadOf(message), "state") = Undef

\* C16: a message that lacks the field its type requires changes nothing of
\* the Session State, hands no frame to any connection and leaves the sender
\* open and registered.
C16_MissingFieldIsNoOp ==
    [][(MessageStep /\ MissingField(last'.message)) =>
        /\ state' = state
        /\ delivered' = delivered
        /\ clients' = clients
        /\ readyState' = readyState]_vars

\* C17: a start-visualization, stop-visualization, regenerate-shader,
\* set-audio-sensitivity or code-progress message is handed, with the content
\* it was received with, to every open registered connection except the
\* sender, exactly once; the sender and every other connection are handed
\* nothing, and the Session State is unchanged.
C17_PassThroughVerbatim ==
    [][(MessageStep /\ TypeOf(last'.message) \in PassThroughTypes) =>
        /\ state' = state
        /\ \A c \in ConnIds :
              IF c \in OpenClients /\ c # last'.conn
              THEN /\ Len(delivered'[c]) = Len(delivered[c]) + 1
                   /\ SubSeq(delivered'[c], 1, Len(delivered[c])) = delivered[c]
                   /\ delivered'[c][Len(delivered'[c])].frame = last'.message
              ELSE delivered'[c] = delivered[c]]_vars

\* the signal kind, trimmed and lower-cased, is one the relay accepts
AcceptedKind(message) ==
    LET rtc == Field(message, "rtc")
    IN  IsString(rtc) /\ TrimLower(rtc.s) \in {"offer", "answer", "ice-candidate", "request-offer"}

\* C18: an rtc-signal message whose kind, trimmed and lower-cased, is offer,
\* answer, ice-candidate or request-offer is handed, with the kind and the
\* payload it was received with, to every open registered connection except
\* the sender and to no one else; any other rtc-signal message hands no frame
\* to anyone; in both cases the Session State and the roles are unchanged.
C18_SignalRelayedVerbatim ==
    [][(MessageStep /\ TypeOf(last'.message) = Str("rtc-signal")) =>
        /\ state' = state
        /\ role' = role
        /\ IF AcceptedKind(last'.message)
           THEN \A c \in ConnIds :
                  IF c \in OpenClients /\ c # last'.conn
                  THEN /\ Len(delivered'[c]) = Len(delivered[c]) + 1
                       /\ SubSeq(delivered'[c], 1, Len(delivered[c])) = delivered[c]
                       /\ delivered'[c][Len(delivered'[c])].frame.type = Str("rtc-signal")
                       /\ delivered'[c][Len(delivered'[c])].frame.rtc = last'.message.rtc
                       /\ delivered'[c][Len(delivered'[c])].frame.payload = last'.message.payload
                  ELSE delivered'[c] = delivered[c]
           ELSE delivered' = delivered]_vars

\* C19: a register message sets the sender's role to the role it names, or
\* to 'unknown' if it names none or a falsy one, and changes no other role,
\* nothing of the Session State and no connection's frames.  No other message
\* changes a role, and whatever roles the sender and the other connections
\* hold, a viewer-status, pass-through or crossfader message has the one
\* effect that the message, the Session State, the registry and the sockets
\* fix: the state is updated and every open registered connection (all but
\* the sender for the sender-excluded kinds) is handed the one frame, so that
\* the same messages give the same state and frames under any roles.
C19_RoleIsInformational ==
    [][MessageStep =>
        LET message == last'.message
            sender == last'.conn
        IN  IF TypeOf(message) = Str("register")
            THEN /\ role'[sender] = IF Truthy(Field(message, "role"))
                                    THEN Field(message, "role") ELSE Str("unknown")
                 /\ \A c \in ConnIds \ {sender} : role'[c] = role[c]
                 /\ state' = state
                 /\ delivered' = delivered
                 /\ clients' = clients /\ readyState' = readyState
            ELSE /\ role' = role
                 /\ GotFrame = IF TypeOf(message) \in MixTypes
                               THEN OpenClients ELSE OpenClients \ {sender}
                 /\ \A c \in GotFrame :
                       /\ Len(delivered'[c]) = Len(delivered[c]) + 1
                       /\ delivered'[c][Len(delivered'[c])].frame.type = ResultingType(message)
                 /\ \A c \in GotFrame, d \in GotFrame :
                       delivered'[c][Len(delivered'[c])].frame = delivered'[d][Len(delivered'[d])].frame
                 /\ (TypeOf(message) = Str("viewer-status") =>
                        /\ state' = [state EXCEPT !.viewerStatus.isRunning =
                                                    Field(PayloadOf(message), "isRunning")]
                        /\ \A c \in GotFrame :
                              delivered'[c][Len(delivered'[c])].frame.payload = state'.viewerStatus)
                 /\ (IsCrossfaderMessage(message) =>
                        /\ state' = [state EXCEPT !.mixState.crossfaderAB = Num(10)]
                        /\ \A c \in GotFrame :
                              delivered'[c][Len(delivered'[c])].frame.payload = state'.mixState)
                 /\ (TypeOf(message) \in PassThroughTypes =>
                        /\ state' = state
                        /\ \A c \in GotFrame :
                              delivered'[c][Len(delivered'[c])].frame = message)]_vars

\* C19 witness: a connection registered as viewer and then sent a
\* viewer-status message, which updated the state and reached the other
\* connection, whose role is still 'unknown'.
C19_Witness ==
    \E c \in ConnIds, d \in ConnIds :
        /\ c # d
        /\ role[c] = Str("viewer") /\ role[d] = Str("unknown")
        /\ last.op = "message" /\ last.conn = c
        /\ TypeOf(last.message) = Str("viewer-status")
        /\ state.viewerStatus.isRunning = Bool(TRUE)
        /\ delivered[d] # <<>> /\ LastDelivered(d).seq = clock
        /\ LastDelivered(d).frame.type = Str("viewer-status")
        /\ LastDelivered(d).frame.payload.isRunning = Bool(TRUE)

\* the value a field has after the payload is merged onto the object
MergedField(old, payload, f) ==
    IF IsObject(payload) /\ payload[f] # Undef THEN payload[f] ELSE old[f]

\* every open registered connection but the sender is handed one frame of
\* the type carrying the value; the sender is handed nothing
OthersHold(sender, type, value) ==
    /\ sender \notin GotFrame
    /\ \A c \in OpenClients \ {sender} :
          /\ Len(delivered'[c]) = Len(delivered[c]) + 1
          /\ delivered'[c][Len(delivered'[c])].frame.type = Str(type)
          /\ delivered'[c][Len(delivered'[c])].frame.payload = value

\* C20: update-control-settings and viewer-status merge field by field: a
\* field the payload names takes the payload's value, every other field of
\* controlSettings / viewerStatus keeps its value, and the frame handed to
\* the other connections carries the whole merged object.
\* update-fallback-layers replaces fallbackLayers by the payload, or by the
\* empty list if there is no payload, whatever the layers were.  Each leaves
\* the other components of the Session State as they are.
C20_MergeVersusReplace ==
    [][MessageStep =>
        LET message == last'.message
            sender == last'.conn
            payload == PayloadOf(message)
        IN  /\ TypeOf(message) = Str("update-control-settings") =>
                /\ \A f \in DOMAIN state.controlSettings :
                      state'.controlSettings[f] = MergedField(state.controlSettings, payload, f)
                /\ state' = [state EXCEPT !.controlSettings = state'.controlSettings]
                /\ OthersHold(sender, "control-settings", state'.controlSettings)
            /\ TypeOf(message) = Str("viewer-status") =>
                /\ \A f \in DOMAIN state.viewerStatus :
                      state'.viewerStatus[f] = MergedField(state.viewerStatus, payload, f)
                /\ state' = [state EXCEPT !.viewerStatus = state'.viewerStatus]
                /\ OthersHold(sender, "viewer-status", state'.viewerStatus)
            /\ TypeOf(message) = Str("update-fallback-layers") =>
                /\ state'.fallbackLayers = IF Nullish(payload) THEN Arr(<<>>) ELSE payload
                /\ state' = [state EXCEPT !.fallbackLayers = state'.fallbackLayers]
                /\ OthersHold(sender, "fallback-layers", state'.fallbackLayers)]_vars

\* C20 witness: the prompt was set by a first update, the provider and the
\* input mode by a second, which kept the prompt; the other connection holds
\* the frame with all three fields.
C20_Witness ==
    \E c \in ConnIds, d \in ConnIds :
        /\ c # d
        /\ clock = 2
        /\ last.op = "message" /\ last.conn = c
        /\ last.message = Message("update-control-settings",
                                  Settings(Str("openai"), Str("microphone"), Undef))
        /\ state.controlSettings = Settings(Str("openai"), Str("microphone"), Str("neon"))
        /\ delivered[d] # <<>> /\ LastDelivered(d).seq = clock
        /\ LastDelivered(d).frame.type = Str("control-settings")
        /\ LastDelivered(d).frame.payload = Settings(Str("openai"), Str("microphone"), Str("neon"))

\* a deck media state of the documented shape: boolean flags, progress in
\* [0,100], src null or a string that is not blank
WellFormedMedia(media) ==
    /\ media.isPlaying \in {Bool(TRUE), Bool(FALSE)}
    /\ media.isLoading \in {Bool(TRUE), Bool(FALSE)}
    /\ media.error \in {Bool(TRUE), Bool(FALSE)}
    /\ IsNumber(media.progress) /\ media.progress.n \in 0..1000
    /\ \/ media.src = Null
       \/ IsString(media.src) /\ media.src.s \notin BlankStrings

\* C21: a deck-media-state naming deck a, b, c or d with a state object
\* replaces that deck's media state by the coerced fields of the object alone
\* (a field the object lacks takes false, 0 or null, not its previous value)
\* and hands the others the frame {deck, state} carrying the coerced value;
\* after every step each of the four deck media states has boolean flags,
\* progress in [0,100] and src null or a non-blank string.
C21_MediaStateCoerced ==
    [][MessageStep =>
        LET message == last'.message
            deck == Field(PayloadOf(message), "deck")
            given == Field(PayloadOf(message), "state")
        IN  /\ \A key \in DeckKeys : WellFormedMedia(state'.deckMediaStates[key])
            /\ (/\ TypeOf(message) = Str("deck-media-state")
                /\ deck \in ValidDeckKeys
                /\ IsObject(given)) =>
                  LET media == state'.deckMediaStates[deck.s]
                  IN  /\ media.isPlaying = ToBoolean(given.isPlaying)
                      /\ media.isLoading = ToBoolean(given.isLoading)
                      /\ media.error = ToBoolean(given.error)
                      /\ (given.progress = Undef => media.progress = Num(0))
                      /\ (IsNumber(given.progress) /\ given.progress.n \in 0..1000 =>
                             media.progress = given.progress)
                      /\ (given.src = Undef => media.src = Null)
                      /\ OthersHold(last'.conn, "deck-media-state",
                                    [deck |-> deck, state |-> media])]_vars

\* the response is a partial content response: 206 was set and not replaced
PartialContent == http.phase # "idle" /\ http.statusCode = 206

\* the request names a file that exists and the handler has just returned
JustPiped(tokens, size) ==
    /\ http.phase = "piping"
    /\ ~HeadersSent(http)
    /\ http.rangeHeader = RangeHeader(tokens)
    /\ http.size = size

\* C22: every 206 response of the streaming endpoint streams a byte interval
\* with 0 <= start <= end < size, has Content-Range 'bytes start-end/size' and
\* Content-Length end - start + 1, whatever the Range header and the size of
\* the file (0 and 1 included); 'bytes=100-199' on a file of 1000 bytes gives
\* 206, 'bytes 100-199/1000' and Content-Length 100.
C22_PartialContentInterval ==
    /\ PartialContent =>
          /\ Len(http.opened) = 1
          /\ LET interval == http.opened[1]
             IN  /\ ~interval.whole
                 /\ 0 <= interval.start
                 /\ interval.start <= interval.end
                 /\ interval.end < http.size
                 /\ http.contentRange =
                       [form |-> "interval", start |-> interval.start,
                        end |-> interval.end, size |-> http.size]
                 /\ http.contentLength = interval.end - interval.start + 1
    /\ JustPiped(<<Lit("bytes="), Digits(100), Lit("-"), Digits(199)>>, 1000) =>
          /\ http.statusCode = 206
          /\ http.contentRange =
                [form |-> "interval", start |-> 100, end |-> 199, size |-> 1000]
          /\ http.contentLength = 100

\* a 206 went out for the last 50 bytes of a file that a Range of 900-2000
\* overshoots
C22_Witness ==
    /\ PartialContent
    /\ http.statusLines = <<206>>
    /\ http.rangeHeader =
          RangeHeader(<<Lit("bytes="), Digits(900), Lit("-"), Digits(2000)>>)
    /\ http.size = 1000
    /\ http.contentRange.end = 999

\* the Range header 'bytes=-' was sent with the request being served
BothEmpty ==
    /\ http.phase # "idle"
    /\ http.rangeHeader = RangeHeader(<<Lit("bytes="), Lit("-")>>)

\* C24: a Range header with both the start and the end empty ('bytes=-') is
\* rejected: for a file that exists the answer is 416 with 'Content-Range:
\* bytes */size', and no 206 is set and no byte interval is opened for it.
C24_BothEmptyRejected ==
    BothEmpty =>
        /\ http.statusCode # 206
        /\ http.opened = <<>>
        /\ http.statusCode \notin {400, 404} =>
              /\ http.statusCode = 416
              /\ http.contentRange =
                    [form |-> "star", start |-> 0, end |-> 0, size |-> http.size]

\* a number above every size and every number written in a header, standing
\* for the value of an overlong digit run
Beyond == 1 + CHOOSE n \in Sizes \cup RangeNumbers :
                 \A m \in Sizes \cup RangeNumbers : m <= n

ValueOf(digits) == IF Head(digits).overflow THEN Beyond ELSE Head(digits).n

\* the resolution the reference rules give for a header and a size
ReferenceRange(header, size) ==
    LET matches == RangeMatches(header.tokens)
        startString == matches.startString
        endString == matches.endString
        interval ==
            IF startString = <<>>
            THEN ByteRange(Max2(0, size - ValueOf(endString)), size - 1)
            ELSE IF endString = <<>>
            THEN ByteRange(ValueOf(startString), size - 1)
            ELSE ByteRange(ValueOf(startString),
                           Min2(ValueOf(endString), size - 1))
    IN  IF ~header.present THEN [kind |-> "full", start |-> 0, end |-> size - 1]
        ELSE IF ~matches.matched \/ (startString = <<>> /\ endString = <<>>)
        THEN [kind |-> "rejected", start |-> 0, end |-> 0]
        ELSE IF startString = <<>> /\ ValueOf(endString) = 0
        THEN [kind |-> "rejected", start |-> 0, end |-> 0]
        ELSE IF startString # <<>> /\ endString # <<>>
                /\ ValueOf(endString) < ValueOf(startString)
        THEN [kind |-> "rejected", start |-> 0, end |-> 0]
        ELSE IF interval.start >= size
        THEN [kind |-> "rejected", start |-> 0, end |-> 0]
        ELSE [kind |-> "range", start |-> interval.start, end |-> interval.end]

\* the handler has resolved the range of a file that exists, and no stream
\* error has replaced its answer
RangeResolved ==
    /\ http.phase # "idle"
    /\ http.statted # <<>>
    /\ http.statusCode \in {200, 206, 416}

\* C23: the range resolution agrees with the reference rules for every header
\* and size: no Range header gives the whole file with Content-Length = size;
\* 'bytes=-N' gives [max(0, size-N), size-1] for N > 0 and is rejected for
\* N = 0; 'bytes=N-' gives [N, size-1]; 'bytes=N-M' is rejected if M < N and
\* gives [N, min(M, size-1)] otherwise; a start >= size is rejected; every
\* rejection is a 416 with 'Content-Range: bytes */size'.
C23_AgreesWithReference ==
    RangeResolved =>
        LET reference == ReferenceRange(http.rangeHeader, http.size)
        IN  /\ reference.kind = "full" =>
                  /\ http.statusCode = 200
                  /\ http.contentLength = http.size
                  /\ Len(http.opened) = 1 /\ http.opened[1].whole
            /\ reference.kind = "range" =>
                  /\ http.statusCode = 206
                  /\ http.contentRange =
                        [form |-> "interval", start |-> reference.start,
                         end |-> reference.end, size |-> http.size]
                  /\ Len(http.opened) = 1
                  /\ http.opened[1].start = reference.start
                  /\ http.opened[1].end = reference.end
            /\ reference.kind = "rejected" =>
                  /\ http.statusCode = 416
                  /\ http.opened = <<>>
                  /\ http.contentRange =
                        [form |-> "star", start |-> 0, end |-> 0,
                         size |-> http.size]

\* the path is the asset root or a path below it, with no segment that
\* climbs or stays
Within(p) ==
    LET segments == Segments(p)
        root == Segments(mp4Dir)
    IN  /\ Len(segments) >= Len(root)
        /\ SubSeq(segments, 1, Len(root)) = root
        /\ \A i \in (Len(root) + 1)..Len(segments) :
              segments[i] \notin {<<>>, <<".">>, DotDot}

\* the paths the request has reached on disk
Touched == {http.statted[i] : i \in 1..Len(http.statted)}
               \cup {http.opened[i].path : i \in 1..Len(http.opened)}

\* the requested path has a segment '..'
HasParentSegment(p) == \E i \in 1..Len(Segments(p)) : Segments(p)[i] = DotDot

\* the requested path, taken as it is written, leads out of the asset root
LeadsOutside(p) ==
    ~Within(<<"/">> \o Joined(NormalizeString(
                 Segments(IF IsAbsolute(p) THEN p ELSE mp4Dir \o <<"/">> \o p),
                 <<>>, FALSE)))

RefusedUntouched == http.statusCode = 400 /\ Touched = {}

\* C25 as stated: every requested path that contains a parent-directory
\* segment or resolves outside the asset root is answered 400 before any stat.
C25_TraversalAsStated ==
    /\ http.phase # "idle"
    /\ Trim(http.requestedPath) # <<>>
    /\ \/ HasParentSegment(Trim(http.requestedPath))
       \/ LeadsOutside(Trim(http.requestedPath))
    => RefusedUntouched

\* C25 (amended): whenever the endpoint stats or opens a file, the path is the
\* asset root or inside it; a requested path whose normalised form, leading
\* separators stripped, still contains '..' ('../../e/p', '..\..\e', 'x..y')
\* is answered 400 before any stat, and a 400 never follows a stat; a '..'
\* that normalisation resolves inside the root ('c/../v') and a leading '/'
\* ('/e/p') are not refused: the path is looked up inside the asset root.
C25_Containment ==
    /\ \A p \in Touched : Within(p)
    /\ http.statusCode = 400 => Touched = {}
    /\ http.phase # "idle" /\ Trim(http.requestedPath) # <<>>
       /\ IncludesDotDot(StripLeadingSeparators(Normalize(Trim(http.requestedPath))))
       => RefusedUntouched
    /\ http.phase # "idle"
       /\ http.requestedPath = <<".", ".", "/", ".", ".", "/", "e", "/", "p">>
       => RefusedUntouched
    /\ http.phase # "idle"
       /\ http.requestedPath \in {<<"c", "/", ".", ".", "/", "v">>, <<"/", "e", "/", "p">>}
       => /\ http.statusCode # 400
          /\ http.statted \in {<< mp4Dir \o <<"/", "v">> >>,
                               << mp4Dir \o <<"/", "e", "/", "p">> >>}

\* '../../e/p' was answered 400 with nothing looked up on disk
C25_Witness ==
    /\ http.phase = "ended"
    /\ http.requestedPath = <<".", ".", "/", ".", ".", "/", "e", "/", "p">>
    /\ http.statusLines = <<400>>
    /\ Touched = {}

\* the step in which the read stream emits 'error'
StreamErrorStep == ~http.errored /\ http'.errored

\* C26: on a streaming I/O error, for the full and for the ranged response: if
\* the headers have been sent the transport is aborted and no second response
\* is attempted; if they have not been sent the response is a 500; in no
\* execution is a status line sent twice for one request.
C26_StreamErrorHandled ==
    [][/\ Len(http'.statusLines) <= 1
       /\ StreamErrorStep =>
             /\ Len(http.opened) = 1
             /\ IF http.statusLines # <<>>
                THEN /\ http'.destroyed
                     /\ http'.statusLines = http.statusLines
                ELSE /\ ~http'.destroyed
                     /\ http'.statusLines = <<500>>
             /\ http'.phase = "ended"]_vars

\* a ranged response failed after its head went out and was aborted
C26_Witness ==
    /\ http.errored
    /\ http.destroyed
    /\ http.statusLines = <<206>>
    /\ ~http.opened[1].whole

\* the entries of an object other than the named one are the same before and
\* after
OthersKept(before, after, named) ==
    \A key \in (DOMAIN before \cup DOMAIN after) \ {named} :
        /\ key \in DOMAIN before
        /\ key \in DOMAIN after
        /\ after[key] = before[key]

\* the components of the Session State other than the named ones are the same
\* in the next state
ComponentsKept(changing) ==
    \A component \in DOMAIN state \ changing : state'[component] = state[component]

\* the deck a message names
NamedDeck(message) == ToPropertyKey(Field(PayloadOf(message), "deck"))

\* the scalar a crossfader target stands for
TargetedScalar(message) ==
    LET target == Field(PayloadOf(message), "target")
        name == IF IsString(target) THEN TrimLower(target.s) ELSE ""
    IN  CASE name \in {"main", "ab"} -> "crossfaderAB"
          [] name = "ac" -> "crossfaderAC"
          [] name = "bd" -> "crossfaderBD"
          [] name = "cd" -> "crossfaderCD"
          [] OTHER -> "none"

\* C27: each message changes only its own component of the Session State:
\* update-mix-deck only the named deck (the other decks and the four
\* crossfaders stay), update-crossfader only the targeted scalar (the decks and
\* the other three scalars stay), deck-media-state only the named deck's media
\* state, update-fallback-layers, update-control-settings and viewer-status
\* only fallbackLayers, controlSettings and viewerStatus; no message changes
\* the connection registry.
C27_FrameCondition ==
    [][MessageStep =>
        LET message == last'.message
            type == TypeOf(message)
        IN  /\ clients' = clients
            /\ type = Str("update-mix-deck") =>
                  /\ ComponentsKept({"mixState"})
                  /\ \A f \in CrossfaderFields :
                        state'.mixState[f] = state.mixState[f]
                  /\ OthersKept(state.mixState.decks, state'.mixState.decks,
                                NamedDeck(message))
            /\ IsCrossfaderMessage(message) =>
                  /\ ComponentsKept({"mixState"})
                  /\ OthersKept(state.mixState, state'.mixState,
                                TargetedScalar(message))
            /\ type = Str("deck-media-state") =>
                  /\ ComponentsKept({"deckMediaStates"})
                  /\ OthersKept(state.deckMediaStates, state'.deckMediaStates,
                                NamedDeck(message))
            /\ type = Str("update-fallback-layers") =>
                  ComponentsKept({"fallbackLayers"})
            /\ type = Str("update-control-settings") =>
                  ComponentsKept({"controlSettings"})
            /\ type = Str("viewer-status") =>
                  ComponentsKept({"viewerStatus"})]_vars

\* deck a was updated after the crossfader had been moved, and the crossfader
\* is where it was
C27_Witness ==
    /\ last.op = "message"
    /\ TypeOf(last.message) = Str("update-mix-deck")
    /\ state.mixState.decks["a"] # defaultMixDeck
    /\ state.mixState.crossfaderAB = Num(10)
    /\ state.mixState.decks["b"] = defaultMixDeck

\* C28: in every reachable Session State the keys of mixState.decks and the
\* keys of deckMediaStates are exactly a, b, c, d: no update-mix-deck or
\* deck-media-state message, whatever deck key it carries, adds or removes a
\* deck.
C28_DeckKeysFixed ==
    /\ DOMAIN state.mixState.decks = DeckKeys
    /\ DOMAIN state.deckMediaStates = DeckKeys

\* the keys of a parsed object that hold a value
Present(o) == {f \in DOMAIN o : o[f] # Undef}
\* two objects of scalars hold the same values under the same keys
SameRecord(x, y) ==
    /\ Present(x) = Present(y)
    /\ \A f \in Present(x) : x[f] = y[f]

\* the mix state of a hook is the mix state of the server
SameMixState(view, mix) ==
    /\ \A f \in CrossfaderFields : view[f] = mix[f]
    /\ DOMAIN view.decks = DOMAIN mix.decks
    /\ \A key \in DOMAIN view.decks : SameRecord(view.decks[key], mix.decks[key])

\* no frame is in flight: every frame handed to an open connection has
\* reached its hook, and no client has a frame on the way to the server
AllDelivered ==
    /\ \A c \in OpenClients : browser[c].cursor = Len(delivered[c])
    /\ \A c \in ConnIds : uplink[c] = <<>>

\* C29: once every frame in flight has been delivered, the mix state held by
\* every open connection (from its init frame, then from each mix-state frame
\* in arrival order, through normaliseMixState) equals the server's mixState,
\* also for the connection that sent the last update and for a connection
\* that joined in the middle of the updates.
C29_MixStateConverges ==
    AllDelivered => \A c \in OpenClients : SameMixState(browser[c].mixState, state.mixState)

\* the view of a hook is the server's Session State, for the three components
\* that are sent to the others only
SameSettings(hook) ==
    /\ SameRecord(hook.controlSettings, state.controlSettings)
    /\ SameRecord(hook.viewerStatus, state.viewerStatus)
    /\ hook.fallbackLayers = state.fallbackLayers

\* C30: when connections apply their own update-control-settings,
\* viewer-status or update-fallback-layers update locally at send time and
\* apply received frames in arrival order, then once all frames in flight are
\* delivered every open connection's view of controlSettings, viewerStatus and
\* fallbackLayers equals the server's Session State, also when two
\* connections send updates of the same kind concurrently.
C30_SettingsConverge ==
    AllDelivered => \A c \in OpenClients : SameSettings(browser[c])

\* the mix state after the case 'update-mix-deck' has handled the message
AfterMixDeck(mix, message) ==
    LET deck == Field(PayloadOf(message), "deck")
        key == ToPropertyKey(deck)
    IN  IF DeckGuard(mix.decks, deck)
        THEN [mix EXCEPT !.decks =
                 SetProperty(mix.decks, key,
                             NormaliseDeck(MergeDeck(GetProperty(mix.decks, key),
                                                     DataOf(message))))]
        ELSE mix

\* C31: applying the same update-mix-deck message twice in a row leaves the
\* Session State as applying it once (the second application changes no deck
\* field), and the normalisation of a deck that is already normalised, with
\* empty data, returns the deck unchanged.
C31_DeckUpdateIdempotent ==
    [][MessageStep /\ TypeOf(last'.message) = Str("update-mix-deck") =>
        LET once == state'.mixState
        IN  /\ once = AfterMixDeck(state.mixState, last'.message)
            /\ AfterMixDeck(once, last'.message) = once
            /\ \A key \in DOMAIN once.decks :
                  NormaliseDeck(MergeDeck(once.decks[key], NoData)) = once.decks[key]
            /\ last.op = "message" /\ last.message = last'.message =>
                  state' = state]_vars

\* the same update of deck a was handled twice in a row and the two mix-state
\* frames it produced are the same
C31_Witness ==
    /\ clock = 2
    /\ last.message = Message("update-mix-deck",
                              MixDeckPayload(Str("a"), DeckData(Undef, Undef, Num(3),
                                                                Undef, Undef)))
    /\ Len(delivered["c1"]) = 3
    /\ delivered["c1"][2].frame = delivered["c1"][3].frame
    /\ state.mixState.decks["a"].opacity = Num(3)

\* the connections a broadcast of this step must reach: registered, open, and
\* not the sender if the update is one that excludes it
MustReach ==
    OpenClients \ (IF TypeOf(last'.message) = Str("update-control-settings")
                   THEN {last'.conn} ELSE {})

\* connection c has nothing to wait for: its client has taken every frame
\* handed to its socket, or the socket is no longer open
CaughtUp(c) == browser[c].cursor = Len(delivered[c]) \/ readyState[c] # "OPEN"

\* C32: every accepted update is eventually observed: each frame the server
\* broadcasts is handed to every connection that is open and not excluded at
\* broadcast time, and under fair, FIFO, loss-free delivery the frames handed
\* to a connection are received by it one by one in order, so that again and
\* again the connection has received every frame handed to it so far, unless
\* it does not stay open: no accepted update is left undelivered.
C32_EventuallyObserved ==
    /\ [][MessageStep =>
            \A c \in MustReach :
                /\ Len(delivered'[c]) = Len(delivered[c]) + 1
                /\ delivered'[c][Len(delivered'[c])].seq = clock']_vars
    /\ [][\A c \in ConnIds :
            /\ browser'[c].cursor \in {browser[c].cursor, browser[c].cursor + 1}
            /\ browser'[c].cursor <= Len(delivered[c])]_vars
    /\ \A c \in ConnIds : []<>CaughtUp(c)

\* c2 has received the frame of an update that c1 sent, and is still open
C32_Witness ==
    /\ last.op = "message" /\ last.conn = "c1"
    /\ readyState["c2"] = "OPEN"
    /\ Len(delivered["c2"]) = 2
    /\ delivered["c2"][2].seq = clock
    /\ browser["c2"].cursor = 2


\* ---------------------------------------------------------------------
\* C33

\* the order of the readyStates of one WebSocket
SocketRank(s) ==
    CASE s = "NONE" -> 0 [] s = "CONNECTING" -> 1 [] s = "OPEN" -> 2
      [] s = "CLOSING" -> 3 [] s = "CLOSED" -> 4

\* the hook never goes back to an earlier socket state and never makes a
\* second socket once its socket is closing or closed
NoReconnect(c) ==
    /\ SocketRank(browser'[c].socket) >= SocketRank(browser[c].socket)
    /\ browser[c].connectionState = "closed" => browser'[c].connectionState = "closed"

\* the frames on the socket start with the one register frame of the hook's
\* role, written in the step in which the socket opens
RegisterFirstAndOnce(c) ==
    /\ (browser[c].socket # "OPEN" /\ browser'[c].socket = "OPEN")
          => /\ browser[c].sent = <<>>
             /\ browser'[c].sent = <<RegisterMessage(browser[c].role)>>
    /\ browser[c].sent # <<>>
          => /\ browser[c].sent[1] = RegisterMessage(browser[c].role)
             /\ browser[c].role \in {Str(r) : r \in HookRoles}
             /\ \A i \in 2..Len(browser[c].sent) : browser[c].sent[i].type # Str("register")

\* a call of send() writes its message at once if the socket is open and
\* writes nothing, then or later, if it is not
DroppedWhenNotOpen(c) ==
    /\ browser'[c].calls = browser[c].calls + 1
          => browser'[c].sent =
                IF browser[c].wsRef /\ browser[c].socket = "OPEN"
                THEN Append(browser[c].sent, browser'[c].lastCall)
                ELSE browser[c].sent
    /\ (browser'[c].calls = browser[c].calls /\ browser'[c].sent # browser[c].sent)
          => /\ browser[c].socket = "CONNECTING"
             /\ browser'[c].sent = <<RegisterMessage(browser[c].role)>>

\* C33 as stated: the connection state of the hook moves only from connecting
\* to open and from open to closed, closed is final and no second socket is
\* made; the first frame on the socket is the one register frame with the
\* hook's role, written when the socket opens; a send() while the socket is
\* not open writes nothing then or later.
C33_LifecycleAsStated ==
    [][\A c \in ConnIds :
          /\ browser'[c].connectionState # browser[c].connectionState
                => <<browser[c].connectionState, browser'[c].connectionState>>
                      \in {<<"connecting", "open">>, <<"open", "closed">>}
          /\ NoReconnect(c)
          /\ RegisterFirstAndOnce(c)
          /\ DroppedWhenNotOpen(c)]_vars

\* C33: as above, but the connection state also moves from connecting straight
\* to closed, when the socket closes before it has opened or the effect is
\* cleaned up before then.
C33_Lifecycle ==
    [][\A c \in ConnIds :
          /\ browser'[c].connectionState # browser[c].connectionState
                => <<browser[c].connectionState, browser'[c].connectionState>>
                      \in {<<"connecting", "open">>, <<"open", "closed">>,
                           <<"connecting", "closed">>}
          /\ browser[c].connectionState = "connecting"
                => browser[c].socket \in {"NONE", "CONNECTING"}
          /\ browser[c].connectionState = "open" => browser[c].socket = "OPEN"
          /\ NoReconnect(c)
          /\ RegisterFirstAndOnce(c)
          /\ DroppedWhenNotOpen(c)]_vars

\* a hook whose socket opened and closed again: a send() before the opening
\* and one after the closing were dropped, one in between went out after the
\* register frame
C33_Witness ==
    \E c \in ConnIds :
        /\ browser[c].socket = "CLOSED"
        /\ browser[c].connectionState = "closed"
        /\ browser[c].calls = 2
        /\ Len(browser[c].sent) = 2
        /\ browser[c].sent[1] = RegisterMessage(Str("viewer"))
        /\ browser[c].sent[2].type = Str("viewer-status")


\* ---------------------------------------------------------------------
\* C34

\* the step is the subscribe callback taking a failed compile
CompileFailed(c) ==
    browser'[c].page.retryCount = browser[c].page.retryCount + 1

\* what holds of every step of the viewer page whatever the generator: a
\* retry is decided only by a failed compile that leaves the count below
\* MAX_RETRIES, at most MAX_RETRIES - 1 of them since the latest successful
\* compile; a failed compile that brings the count to MAX_RETRIES or more
\* sets the error, clears isGenerating and decides no retry; only a
\* successful compile lowers the count, and to 0
RetryRules(c) ==
    /\ browser'[c].page.waiting > browser[c].page.waiting
          => /\ CompileFailed(c)
             /\ browser'[c].page.retryCount < MAX_RETRIES
             /\ browser'[c].page.regenerations = browser[c].page.regenerations + 1
    /\ browser'[c].page.regenerations <= MAX_RETRIES - 1
    /\ (CompileFailed(c) /\ browser'[c].page.retryCount >= MAX_RETRIES)
          => /\ browser'[c].page.error = CompilationFailed
             /\ ~browser'[c].page.isGenerating
             /\ browser'[c].page.waiting = browser[c].page.waiting
             /\ browser'[c].page.requested = browser[c].page.requested
    /\ (browser'[c].page.compiling < browser[c].page.compiling
           /\ browser'[c].page.success = "true")
          => /\ browser'[c].page.retryCount = 0
             /\ browser'[c].page.regenerations = 0
    /\ browser'[c].page.retryCount < browser[c].page.retryCount
          => /\ browser'[c].page.retryCount = 0
             /\ browser'[c].page.success = "true"
             /\ browser'[c].page.compiling < browser[c].page.compiling

\* C34 as stated: a failed compile decides an automatic regeneration only
\* while the count of failures in a row is below MAX_RETRIES, so at most 4 in a
\* row without a success; the failure that brings the count to 5 or more sets
\* the error, clears isGenerating, rolls back to the previous shader and
\* decides no regeneration; a successful compile resets the count to 0.
C34_RetryBoundedAsStated ==
    [][/\ RetryRules(ViewerConn)
       /\ (CompileFailed(ViewerConn)
              /\ browser'[ViewerConn].page.retryCount >= MAX_RETRIES)
             => browser'[ViewerConn].page.rollbacks
                   = browser[ViewerConn].page.rollbacks + 1]_vars

\* C34: as above, but the rollback is made only if the page still has its
\* generator; and while it has one, every failed compile that leaves the
\* count below MAX_RETRIES decides a regeneration.
C34_RetryBounded ==
    [][/\ RetryRules(ViewerConn)
       /\ (CompileFailed(ViewerConn)
              /\ browser'[ViewerConn].page.retryCount >= MAX_RETRIES)
             => browser'[ViewerConn].page.rollbacks
                   = browser[ViewerConn].page.rollbacks
                     + (IF browser[ViewerConn].page.generator THEN 1 ELSE 0)
       /\ (CompileFailed(ViewerConn)
              /\ browser'[ViewerConn].page.retryCount < MAX_RETRIES
              /\ browser[ViewerConn].page.generator)
             => /\ browser'[ViewerConn].page.waiting
                      = browser[ViewerConn].page.waiting + 1
                /\ browser'[ViewerConn].page.rollbacks
                      = browser[ViewerConn].page.rollbacks]_vars

\* four regenerations in a row, then the fifth failure: the error, no
\* regeneration under way, one rollback
C34_Witness ==
    /\ browser[ViewerConn].page.retryCount = MAX_RETRIES
    /\ browser[ViewerConn].page.regenerations = MAX_RETRIES - 1
    /\ browser[ViewerConn].page.compiles = MAX_RETRIES
    /\ browser[ViewerConn].page.error = CompilationFailed
    /\ ~browser[ViewerConn].page.isGenerating
    /\ browser[ViewerConn].page.rollbacks = 1
    /\ browser[ViewerConn].page.waiting = 0
    /\ browser[ViewerConn].page.requested = 0

=============================================================================
